---------------------------- MODULE Spec2Model ----------------------------
(***************************************************************************)
(* Model of the numerical-methods engines of MetodosNumericos:             *)
(*   src/metodos/integracion.py   (composite quadrature, Gauss-Legendre)   *)
(*   src/metodos/derivacion.py    (finite differences)                     *)
(*   src/metodos/interpolacion.py (linear, Newton, Lagrange)               *)
(*                                                                         *)
(* Every engine function is a pure function of its arguments.  A behaviour *)
(* of the model is one call: Init draws the arguments of the call (req),   *)
(* one action per engine function applies that function to them and        *)
(* stores what the call produced (outcome) and which function ran (called).*)
(*                                                                         *)
(* Numbers.  A Python float is modelled by an exact extended rational      *)
(* <<num, den>>: den > 0 and gcd(num, den) = 1 for a finite value,         *)
(* <<0, 0>> for NaN, <<1, 0>> for +inf and <<-1, 0>> for -inf.  The        *)
(* arithmetic below is IEEE arithmetic without rounding: the finite cases  *)
(* are exact, the special cases follow IEEE (inf - inf = NaN, 0 * inf =    *)
(* NaN, NaN is contagious, every comparison with NaN is false).            *)
(***************************************************************************)
EXTENDS Integers, Sequences, FiniteSets, TLC

VARIABLES req, called, outcome

vars == <<req, called, outcome>>

----------------------------------------------------------------------------
(* Exact extended-rational arithmetic (the model of float).                *)

Abs(k) == IF k < 0 THEN -k ELSE k

Sgn(k) == IF k < 0 THEN -1 ELSE IF k = 0 THEN 0 ELSE 1

Min(i, j) == IF i < j THEN i ELSE j

RECURSIVE Gcd(_, _)
Gcd(i, j) == IF j = 0 THEN i ELSE Gcd(j, i % j)

\* The canonical form of num/den, den # 0.
Norm(num, den) ==
  LET g == Gcd(Abs(num), Abs(den))
      s == IF den < 0 THEN -1 ELSE 1
  IN  <<(s * num) \div g, (s * den) \div g>>

NaN  == <<0, 0>>
PInf == <<1, 0>>
NInf == <<-1, 0>>

Num(k) == <<k, 1>>

Zero == Num(0)
One  == Num(1)

IsNaN(v)    == v = NaN
IsInf(v)    == v[2] = 0 /\ v[1] # 0
IsFinite(v) == v[2] # 0

Neg(v) == <<-v[1], v[2]>>

Add(u, v) ==
  IF IsNaN(u) \/ IsNaN(v) THEN NaN
  ELSE IF IsInf(u) THEN (IF IsInf(v) /\ v # u THEN NaN ELSE u)
  ELSE IF IsInf(v) THEN v
  ELSE LET g == Gcd(u[2], v[2])
       IN  Norm(u[1] * (v[2] \div g) + v[1] * (u[2] \div g), (u[2] \div g) * v[2])

Sub(u, v) == Add(u, Neg(v))

Mul(u, v) ==
  IF IsNaN(u) \/ IsNaN(v) THEN NaN
  ELSE IF IsInf(u) \/ IsInf(v)
       THEN (IF u[1] = 0 \/ v[1] = 0 THEN NaN ELSE <<Sgn(u[1]) * Sgn(v[1]), 0>>)
  ELSE LET g1 == Gcd(Abs(u[1]), v[2])
           g2 == Gcd(Abs(v[1]), u[2])
       IN  Norm((u[1] \div g1) * (v[1] \div g2), (u[2] \div g2) * (v[2] \div g1))

\* u / v.  No division of the modelled code has a zero divisor (h, n and the
\* node distances are validated non-zero); the zero case follows numpy.
Div(u, v) ==
  IF IsNaN(u) \/ IsNaN(v) THEN NaN
  ELSE IF IsInf(u) THEN (IF IsInf(v) THEN NaN
                         ELSE <<u[1] * (IF v[1] < 0 THEN -1 ELSE 1), 0>>)
  ELSE IF IsInf(v) THEN Zero
  ELSE IF v[1] = 0 THEN (IF u[1] = 0 THEN NaN ELSE <<Sgn(u[1]), 0>>)
  ELSE Mul(u, <<Sgn(v[1]) * v[2], Abs(v[1])>>)

\* u < v; false when either side is NaN.
Lt(u, v) ==
  IF IsNaN(u) \/ IsNaN(v) THEN FALSE
  ELSE IF IsInf(u) THEN u = NInf /\ v # NInf
  ELSE IF IsInf(v) THEN v = PInf
  ELSE LET g == Gcd(u[2], v[2])
       IN  u[1] * (v[2] \div g) < v[1] * (u[2] \div g)

Le(u, v) == ~IsNaN(u) /\ ~IsNaN(v) /\ (u = v \/ Lt(u, v))

AbsV(v) == <<Abs(v[1]), v[2]>>

\* Sum of fv[start], fv[start + step], ... (k terms), by halving the range so
\* that a sum of 10000 terms nests 14 deep.  Extended-rational addition is
\* associative and commutative, so this is the value of the code's
\* left-to-right accumulation.
RECURSIVE SumTerms(_, _, _, _)
SumTerms(fv, start, step, k) ==
  IF k <= 0 THEN Zero
  ELSE IF k = 1 THEN fv[start]
  ELSE LET k1 == k \div 2
       IN  Add(SumTerms(fv, start, step, k1),
               SumTerms(fv, start + k1 * step, step, k - k1))

\* The number of elements of Python's range(lo, hi, step), step > 0.
RangeLen(lo, hi, step) == IF hi <= lo THEN 0 ELSE (hi - lo + step - 1) \div step

----------------------------------------------------------------------------
(* Integers of any size, for the ten-digit decimals of the Gauss-Legendre  *)
(* table: [s |-> sign, m |-> magnitude], the magnitude a sequence of       *)
(* limbs in base 10^4, least significant first and without a leading zero  *)
(* limb (zero is the empty sequence with sign 0).                          *)

LimbBase == 100 * 100

Limb(m, i) == IF i <= Len(m) THEN m[i] ELSE 0

RECURSIVE Trim(_)
Trim(m) ==
  IF m = <<>> THEN m
  ELSE IF m[Len(m)] = 0 THEN Trim(SubSeq(m, 1, Len(m) - 1)) ELSE m

RECURSIVE LimbsOf(_)
LimbsOf(k) == IF k = 0 THEN <<>> ELSE <<k % LimbBase>> \o LimbsOf(k \div LimbBase)

RECURSIVE MagAdd(_, _, _, _)
MagAdd(m1, m2, i, carry) ==
  IF i > Len(m1) /\ i > Len(m2) THEN LimbsOf(carry)
  ELSE LET t == Limb(m1, i) + Limb(m2, i) + carry
       IN  <<t % LimbBase>> \o MagAdd(m1, m2, i + 1, t \div LimbBase)

\* m1 - m2 for m1 >= m2, before trimming.
RECURSIVE MagSub(_, _, _, _)
MagSub(m1, m2, i, borrow) ==
  IF i > Len(m1) THEN <<>>
  ELSE LET t == Limb(m1, i) - Limb(m2, i) - borrow
       IN  IF t < 0 THEN <<t + LimbBase>> \o MagSub(m1, m2, i + 1, 1)
           ELSE <<t>> \o MagSub(m1, m2, i + 1, 0)

\* Whether m1 < m2, comparing from limb i down.
RECURSIVE MagLtFrom(_, _, _)
MagLtFrom(m1, m2, i) ==
  IF i = 0 THEN FALSE
  ELSE IF m1[i] # m2[i] THEN m1[i] < m2[i]
  ELSE MagLtFrom(m1, m2, i - 1)

MagLt(m1, m2) ==
  IF Len(m1) # Len(m2) THEN Len(m1) < Len(m2) ELSE MagLtFrom(m1, m2, Len(m1))

\* The sum of the limb products m1[i] * m2[k + 1 - i] of column k.
RECURSIVE Column(_, _, _, _)
Column(m1, m2, k, i) ==
  IF i > Len(m1) \/ i > k THEN 0
  ELSE Limb(m1, i) * Limb(m2, k + 1 - i) + Column(m1, m2, k, i + 1)

RECURSIVE MagMulFrom(_, _, _, _)
MagMulFrom(m1, m2, k, carry) ==
  IF k > Len(m1) + Len(m2) THEN LimbsOf(carry)
  ELSE LET t == Column(m1, m2, k, 1) + carry
       IN  <<t % LimbBase>> \o MagMulFrom(m1, m2, k + 1, t \div LimbBase)

Big(k) == [s |-> Sgn(k), m |-> LimbsOf(Abs(k))]

BigNeg(u) == [s |-> -u.s, m |-> u.m]

BigAdd(u, v) ==
  IF u.s = 0 THEN v
  ELSE IF v.s = 0 THEN u
  ELSE IF u.s = v.s THEN [s |-> u.s, m |-> MagAdd(u.m, v.m, 1, 0)]
  ELSE IF u.m = v.m THEN Big(0)
  ELSE IF MagLt(u.m, v.m) THEN [s |-> v.s, m |-> Trim(MagSub(v.m, u.m, 1, 0))]
  ELSE [s |-> u.s, m |-> Trim(MagSub(u.m, v.m, 1, 0))]

BigMul(u, v) ==
  IF u.s = 0 \/ v.s = 0 THEN Big(0)
  ELSE [s |-> u.s * v.s, m |-> Trim(MagMulFrom(u.m, v.m, 1, 0))]

RECURSIVE BigPow(_, _)
BigPow(u, k) == IF k = 0 THEN Big(1) ELSE BigMul(u, BigPow(u, k - 1))

RECURSIVE BigSum(_, _)
BigSum(s, i) == IF i > Len(s) THEN Big(0) ELSE BigAdd(s[i], BigSum(s, i + 1))

\* The decimal 0.dddddeeeee at scale 10^-10: hi its first five digits and lo
\* its last five, and the scale itself.
DecimalScale == Big(100000)

Decimal(hi, lo) == BigAdd(BigMul(Big(hi), DecimalScale), Big(lo))

DecimalOne == BigMul(DecimalScale, DecimalScale)

----------------------------------------------------------------------------
(* The compiled function.  func_str is compiled by sympy (outside this     *)
(* repository) into a callable; the model represents the callable by what  *)
(* it returns: the polynomial c[1] + c[2] x + c[3] x^2 + c[4] x^3, except  *)
(* NaN where x < nanBelow (as sqrt or log give outside their domain),      *)
(* +inf at x = infAt, and an exception (ZeroDivisionError) at x = raiseAt. *)
(* nanBelow = -inf, infAt = NaN and raiseAt = NaN switch an exception off. *)
(* ok = FALSE is a string sympy cannot parse (or an empty string).         *)
(* The Gauss-Legendre nodes other than the centre of the interval are      *)
(* ten-digit decimals (or numpy's doubles), not small rationals: what the  *)
(* callable does at the i-th such node is given by atNode[i] (its value)   *)
(* and raiseNode (the node where it raises, 0 for none).  Finite stands    *)
(* for a finite value the model does not compute: a polynomial is finite   *)
(* at every node.                                                          *)

RECURSIVE Horner(_, _, _)
Horner(c, x, i) ==
  IF i = Len(c) THEN Num(c[i])
  ELSE Add(Num(c[i]), Mul(x, Horner(c, x, i + 1)))

PolyEval(c, x) == Horner(c, x, 1)

Raises(func, x) == x = func.raiseAt

Eval(func, x) ==
  IF Lt(x, func.nanBelow) THEN NaN
  ELSE IF x = func.infAt THEN PInf
  ELSE PolyEval(func.c, x)

Finite == <<1, -1>>

MaxGaussNodes == 10

Poly(c) ==
  [ok |-> TRUE, c |-> c, nanBelow |-> NInf, infAt |-> NaN, raiseAt |-> NaN,
   atNode |-> [i \in 1..MaxGaussNodes |-> Finite], raiseNode |-> 0]

----------------------------------------------------------------------------
(* Outcomes of a call: a returned value, or the exception the call raised. *)
(* An exception is modelled by its Python type, its message template (msg),*)
(* the argument names the message text contains (names) and the values the *)
(* message interpolates (shows).                                           *)

NoOutcome ==
  [ok |-> FALSE, error |-> [type |-> "none", msg |-> "none", names |-> {}, shows |-> <<>>]]

Raise(type, msg, names, shows) ==
  [ok |-> FALSE, error |-> [type |-> type, msg |-> msg, names |-> names, shows |-> shows]]

\* What a validator returns when it raises nothing.
Passed == [ok |-> TRUE]

----------------------------------------------------------------------------
(* src/metodos/integracion.py                                              *)

MaxSubdivisions == 10000

\* integracion._parse_function: the string must compile, and the compiled
\* function is tried at 1.0; an exception there, or NaN, is a parse error
\* (an infinite value passes).
parse_function_integ(func) ==
  IF ~func.ok THEN Raise("ValueError", "error_al_parsear", {"func_str"}, <<>>)
  ELSE IF Raises(func, One) THEN Raise("ValueError", "error_al_parsear", {"func_str"}, <<>>)
  ELSE LET test_val == Eval(func, One)
       IN  IF IsNaN(test_val) /\ ~IsInf(test_val)
           THEN Raise("ValueError", "error_al_parsear", {"func_str"}, <<>>)
           ELSE Passed

\* validate_integration_params with the upper limit off by one.
validate_integration_params_LimitExcluded(a, b, n) ==
  IF IsNaN(a) \/ IsInf(a)
    THEN Raise("ValueError", "limite_inferior_no_valido", {"a"}, <<a>>)
  ELSE IF IsNaN(b) \/ IsInf(b)
    THEN Raise("ValueError", "limite_superior_no_valido", {"b"}, <<b>>)
  ELSE IF Le(b, a)
    THEN Raise("ValueError", "inferior_debe_ser_menor", {}, <<a, b>>)
  ELSE IF n < 1
    THEN Raise("ValueError", "subdivisiones_entero_positivo", {}, <<Num(n)>>)
  ELSE IF n >= MaxSubdivisions
    THEN Raise("ValueError", "subdivisiones_demasiado_grande", {}, <<Num(n)>>)
  ELSE Passed

validate_integration_params(a, b, n) ==
  IF IsNaN(a) \/ IsInf(a)
    THEN Raise("ValueError", "limite_inferior_no_valido", {"a"}, <<a>>)
  ELSE IF IsNaN(b) \/ IsInf(b)
    THEN Raise("ValueError", "limite_superior_no_valido", {"b"}, <<b>>)
  ELSE IF Le(b, a)
    THEN Raise("ValueError", "inferior_debe_ser_menor", {}, <<a, b>>)
  ELSE IF n < 1
    THEN Raise("ValueError", "subdivisiones_entero_positivo", {}, <<Num(n)>>)
  ELSE IF n > MaxSubdivisions
    THEN Raise("ValueError", "subdivisiones_demasiado_grande", {}, <<Num(n)>>)
  ELSE Passed

\* An exception of the compiled function itself is not caught by any
\* integration routine: it leaves the call as it is.
FuncRaised == Raise("ZeroDivisionError", "division_by_zero", {}, <<>>)

\* Simpson 1/3 needs an even n, Simpson 3/8 a multiple of 3.
AdjustEven(n) == IF n % 2 # 0 THEN n + 1 ELSE n

\* AdjustMultipleOf3 without its test: a multiple of 3 is raised too.
AdjustMultipleOf3_Always(n) == ((n \div 3) + 1) * 3

AdjustMultipleOf3(n) == IF n % 3 # 0 THEN ((n \div 3) + 1) * 3 ELSE n

\* The three composite formulas.
TrapecioFormula(h, fa, sum_intermediate, fb) ==
  Div(Mul(h, Add(Add(fa, Mul(Num(2), sum_intermediate)), fb)), Num(2))

Simpson13Formula(h, f0, sum_odd, sum_even, fn) ==
  Div(Mul(h, Add(Add(Add(f0, Mul(Num(4), sum_odd)), Mul(Num(2), sum_even)), fn)), Num(3))

\* Simpson38Weight with its two weights exchanged.
Simpson38Weight_Swapped(i) == IF i % 3 = 0 THEN 3 ELSE 2

Simpson38Weight(i) == IF i % 3 = 0 THEN 2 ELSE 3

Simpson38Formula(h, total) == Div(Mul(Mul(Num(3), h), total), Num(8))

\* The k-th, in loop order, of the loop indices idx at which a loop appends a
\* record to the trace.
Shown(idx, k) == CHOOSE i \in idx : Cardinality({j \in idx : j < i}) = k - 1

\* ShowsPoint with a strict comparison: four intermediate points at most.
ShowsPoint_Strict(i) == i < 5

\* trapecio_compuesto: if i <= 5, for i in range(1, n).
ShowsPoint(i) == i <= 5

\* gauss_legendre: if i < 5, for i in range(n); the model counts nodes from 1.
ShowsNode(i) == i - 1 < 5

\* The passes of the two loops that append a record.
ShownPoints(n) == {i \in 1..(n - 1) : ShowsPoint(i)}

ShownNodes(n) == {i \in 1..n : ShowsNode(i)}

\* The grid a + i*h, i = 0..n (the code takes the two ends as a and b).
Grid(a, b, n, h) ==
  [i \in 0..n |-> IF i = 0 THEN a ELSE IF i = n THEN b ELSE Add(a, Mul(Num(i), h))]

trapecio_compuesto(func, a, b, n) ==
  LET v == validate_integration_params(a, b, n) IN
  IF ~v.ok THEN v ELSE
  LET p == parse_function_integ(func) IN
  IF ~p.ok THEN p ELSE
  LET h  == Div(Sub(b, a), Num(n))
      xs == Grid(a, b, n, h)
  IN  IF \E i \in 0..n : Raises(func, xs[i]) THEN FuncRaised ELSE
      LET fv == [i \in 0..n |-> Eval(func, xs[i])]
          fa == fv[0]
          fb == fv[n]
          sum_intermediate == SumTerms(fv, 1, 1, n - 1)
          result == TrapecioFormula(h, fa, sum_intermediate, fb)
          shown == ShownPoints(n)
          steps ==
            << [kind |-> "h", step |-> 1, h |-> h, n |-> n, x |-> a, fx |-> fa] >>
            \o [k \in 1..Cardinality(shown) |->
                  LET i == Shown(shown, k)
                  IN  [kind |-> "point", step |-> i + 1, x |-> xs[i], fx |-> fv[i]]]
            \o << [kind |-> "final", x |-> b, fx |-> fb],
                  [kind |-> "result", fa |-> fa, sum |-> sum_intermediate,
                   fb |-> fb, result |-> result] >>
      IN  [ok |-> TRUE, result |-> result, steps |-> steps]

simpson_13_compuesto(func, a, b, n0) ==
  LET v == validate_integration_params(a, b, n0) IN
  IF ~v.ok THEN v ELSE
  LET n == AdjustEven(n0)
      p == parse_function_integ(func)
  IN
  IF ~p.ok THEN p ELSE
  LET h      == Div(Sub(b, a), Num(n))
      x_vals == [i \in 0..n |-> Add(a, Mul(Num(i), h))]
  IN  IF \E i \in 0..n : Raises(func, x_vals[i]) THEN FuncRaised ELSE
      LET f_vals   == [i \in 0..n |-> Eval(func, x_vals[i])]
          sum_odd  == SumTerms(f_vals, 1, 2, RangeLen(1, n, 2))
          sum_even == SumTerms(f_vals, 2, 2, RangeLen(2, n, 2))
          result   == Simpson13Formula(h, f_vals[0], sum_odd, sum_even, f_vals[n])
          steps ==
            << [kind |-> "h", step |-> 1, h |-> h, n_adjusted |-> n],
               [kind |-> "calculation", f_a |-> f_vals[0], f_b |-> f_vals[n],
                sum_odd |-> sum_odd, sum_even |-> sum_even, result |-> result] >>
      IN  [ok |-> TRUE, result |-> result, steps |-> steps]

simpson_38_compuesto(func, a, b, n0) ==
  LET v == validate_integration_params(a, b, n0) IN
  IF ~v.ok THEN v ELSE
  LET n == AdjustMultipleOf3(n0)
      p == parse_function_integ(func)
  IN
  IF ~p.ok THEN p ELSE
  LET h  == Div(Sub(b, a), Num(n))
      xs == Grid(a, b, n, h)
  IN  IF \E i \in 0..n : Raises(func, xs[i]) THEN FuncRaised ELSE
      LET fv == [i \in 0..n |-> Eval(func, xs[i])]
          wf == [i \in 1..(n - 1) |-> Mul(Num(Simpson38Weight(i)), fv[i])]
          total  == Add(Add(fv[0], fv[n]), SumTerms(wf, 1, 1, n - 1))
          result == Simpson38Formula(h, total)
          steps ==
            << [kind |-> "h", step |-> 1, h |-> h, n_adjusted |-> n],
               [kind |-> "result", result |-> result] >>
      IN  [ok |-> TRUE, result |-> result, steps |-> steps]

GaussTableMax == 5

\* Whether node i of the n-point rule is the rule's centre, the node 0.0 of
\* gauss_data[1], [3], [5] and of leggauss(7), leggauss(9).
IsCentre(n, i) == 2 * i = n + 1

\* transformed_nodes[i] for the centre: (b - a)/2 * 0.0 + (a + b)/2.
CentreNode(a, b) ==
  Add(Mul(Div(Sub(b, a), Num(2)), Zero), Div(Add(a, b), Num(2)))

NodeRaises(func, a, b, n, i) ==
  IF IsCentre(n, i) THEN Raises(func, CentreNode(a, b)) ELSE func.raiseNode = i

NodeValue(func, a, b, n, i) ==
  IF IsCentre(n, i) THEN Eval(func, CentreNode(a, b)) ELSE func.atNode[i]

\* The rule's weight i and node i, by name: gauss_data[n] for n <= 5,
\* numpy's leggauss(n) above.  Every weight of every rule is positive.
GaussWeight(n, i) == [rule |-> n, index |-> i, tabulated |-> n <= GaussTableMax]

\* The float the quadrature returns, (b - a)/2 * sum(weights[i] * f(x_i)),
\* kept as the sum it is: half is (b - a)/2, terms[i] the weight and f(x_i).
\* It is NaN exactly when a term is NaN or two terms are infinite with
\* opposite signs (half and the weights are positive and finite).
GaussIsNaN(q) ==
  \/ \E i \in DOMAIN q.terms : IsNaN(q.terms[i].fx)
  \/ \E i, j \in DOMAIN q.terms : q.terms[i].fx = PInf /\ q.terms[j].fx = NInf

\* ClampNodes clamping to one node fewer.
ClampNodes_OneFewer(n) == IF n > MaxGaussNodes THEN MaxGaussNodes - 1 ELSE n

\* if n > 10: n = 10.
ClampNodes(n) == IF n > MaxGaussNodes THEN MaxGaussNodes ELSE n

gauss_legendre(func, a, b, n0) ==
  LET v == validate_integration_params(a, b, n0) IN
  IF ~v.ok THEN v ELSE
  LET n == ClampNodes(n0)
      p == parse_function_integ(func)
  IN
  IF ~p.ok THEN p ELSE
  IF \E i \in 1..n : NodeRaises(func, a, b, n, i) THEN FuncRaised ELSE
  LET terms  == [i \in 1..n |->
                   [w |-> GaussWeight(n, i), fx |-> NodeValue(func, a, b, n, i)]]
      result == [half |-> Div(Sub(b, a), Num(2)), terms |-> terms]
      shown  == ShownNodes(n)
      steps ==
        << [kind |-> "nodes", n |-> n, a |-> a, b |-> b,
            weights |-> [i \in 1..n |-> GaussWeight(n, i)]] >>
        \o [k \in 1..Cardinality(shown) |->
              LET i == Shown(shown, k)
              IN  [kind |-> "eval", step |-> i, fx |-> terms[i].fx, weight |-> terms[i].w]]
        \o << [kind |-> "result", result |-> result] >>
  IN  [ok |-> TRUE, result |-> result, steps |-> steps]

\* gauss_data: the stored nodes and weights of the n-point rule, n in 1..5,
\* in units of 10^-10.
gauss_data(n) ==
  CASE n = 1 ->
         [nodes   |-> <<Big(0)>>,
          weights |-> <<BigMul(Big(2), DecimalOne)>>]
    [] n = 2 ->
         \* 0.5773502692
         [nodes   |-> <<BigNeg(Decimal(57735, 2692)), Decimal(57735, 2692)>>,
          weights |-> <<DecimalOne, DecimalOne>>]
    [] n = 3 ->
         \* 0.7745966692; 0.5555555556, 0.8888888889
         [nodes   |-> <<BigNeg(Decimal(77459, 66692)), Big(0), Decimal(77459, 66692)>>,
          weights |-> <<Decimal(55555, 55556), Decimal(88888, 88889),
                        Decimal(55555, 55556)>>]
    [] n = 4 ->
         \* 0.8611363116, 0.3399810436; 0.3478548451, 0.6521451549
         [nodes   |-> <<BigNeg(Decimal(86113, 63116)), BigNeg(Decimal(33998, 10436)),
                        Decimal(33998, 10436), Decimal(86113, 63116)>>,
          weights |-> <<Decimal(34785, 48451), Decimal(65214, 51549),
                        Decimal(65214, 51549), Decimal(34785, 48451)>>]
    [] n = 5 ->
         \* 0.9061798459, 0.5384693101; 0.2369268851, 0.4786286705, 0.5688888889
         [nodes   |-> <<BigNeg(Decimal(90617, 98459)), BigNeg(Decimal(53846, 93101)),
                        Big(0), Decimal(53846, 93101), Decimal(90617, 98459)>>,
          weights |-> <<Decimal(23692, 68851), Decimal(47862, 86705),
                        Decimal(56888, 88889), Decimal(47862, 86705),
                        Decimal(23692, 68851)>>]

\* The quadrature of gauss_legendre carried out with the stored table, without
\* rounding, for a polynomial and finite rational a < b.  With q the common
\* denominator of a and b, b - a = dn/q and a + b = sn/q, node i is
\* x_i = (dn * nodes[i] + sn * 10^10) / unit, unit = 2 * q * 10^10, and
\*   (b - a)/2 * sum(weights[i] * f(x_i))
\*     = dn * sum(weights[i] * numer_i) / unit^(d + 1),
\* numer_i = f(x_i) * unit^d, d + 1 the number of coefficients of f.
RECURSIVE ScaledHorner(_, _, _, _)
ScaledHorner(c, x, unit, i) ==
  IF i = Len(c) THEN Big(c[i])
  ELSE BigAdd(BigMul(Big(c[i]), BigPow(unit, Len(c) - i)),
              BigMul(x, ScaledHorner(c, x, unit, i + 1)))

TransformedNode(dn, sn, node) == BigAdd(BigMul(Big(dn), node), BigMul(Big(sn), DecimalOne))

GaussSum(c, a, b, n) ==
  LET q    == a[2] * b[2]
      dn   == b[1] * a[2] - a[1] * b[2]
      sn   == a[1] * b[2] + b[1] * a[2]
      unit == BigMul(Big(2 * q), DecimalOne)
      data == gauss_data(n)
      contributions ==
        SubSeq([i \in 1..n |->
                  BigMul(data.weights[i],
                         ScaledHorner(c, TransformedNode(dn, sn, data.nodes[i]), unit, 1))],
               1, n)
  IN  [num |-> BigMul(Big(dn), BigSum(contributions, 1)),
       den |-> BigPow(unit, Len(c))]

\* gauss_legendre with its result computed from the stored table where the
\* table is used (n <= 5) and f is a polynomial.
gauss_legendre_tabulated(func, a, b, n) ==
  LET out == gauss_legendre(func, a, b, n) IN
  IF ~out.ok \/ n > GaussTableMax \/ func # Poly(func.c) THEN out
  ELSE LET result == GaussSum(func.c, a, b, n)
       IN  [ok |-> TRUE, result |-> result,
            steps |-> [out.steps EXCEPT ![Len(out.steps)].result = result]]

----------------------------------------------------------------------------
(* The calls of the integration engine.                                    *)

MaxCoef == 1
MaxEnd  == 1
MaxN    == 6

\* Polynomials of degree <= 3: constant and linear coefficients in 0..MaxCoef,
\* quadratic and cubic ones in -1..1.
Coefs == 0..MaxCoef

HighCoefs == {-1, 0, 1}

Polys ==
  {Poly(<<c0, c1, c2, c3>>) : c0 \in Coefs, c1 \in Coefs, c2 \in HighCoefs, c3 \in HighCoefs}

Half == <<1, 2>>

\* Interval ends: the integers of -1..MaxEnd and one proper fraction.
Ends == {Num(k) : k \in (-1)..MaxEnd} \cup {Half}

NonFinite == {NaN, PInf, NInf}

\* Callables with an undefined, infinite or raising sample, and a string
\* that does not compile.  2 > 1.0: the callable is NaN at 1.0 as well.
Linear == Poly(<<1, 2, 0, 0>>)

BadFuncs ==
     {[Linear EXCEPT !.nanBelow = Num(k)] : k \in {0, 2}}
  \cup {[Linear EXCEPT !.infAt = Num(k)] : k \in {0, 1}}
  \cup {[Linear EXCEPT !.raiseAt = Num(k)] : k \in {0, 1}}
  \cup {[Linear EXCEPT !.atNode[k] = s] : k \in 1..MaxGaussNodes, s \in NonFinite}
  \cup {[Linear EXCEPT !.atNode[1] = PInf, !.atNode[2] = NInf]}
  \cup {[Linear EXCEPT !.raiseNode = k] : k \in {1, MaxGaussNodes}}
  \cup {[Linear EXCEPT !.ok = FALSE]}

\* Subdivision counts around Gauss's cap and at the limits of the accepted range.
CapN == {MaxGaussNodes - 1, MaxGaussNodes, MaxGaussNodes + 1}

EdgeN == {-1, 0, 1, MaxSubdivisions - 1, MaxSubdivisions, MaxSubdivisions + 1}

IntegrationRequests ==
       {[func |-> f, a |-> a, b |-> b, n |-> n] :
           f \in Polys, a \in Ends, b \in Ends, n \in 1..MaxN}
  \cup {[func |-> f, a |-> Num(-1), b |-> b, n |-> n] :
           f \in BadFuncs, b \in {Num(1), Num(2)}, n \in CapN \cup 1..MaxN}
  \cup {[func |-> Linear, a |-> a, b |-> b, n |-> n] :
           a \in {Zero, One} \cup NonFinite, b \in {Zero, One} \cup NonFinite,
           n \in EdgeN \cup CapN}

InitIntegration ==
  /\ req \in IntegrationRequests
  /\ called = "none"
  /\ outcome = NoOutcome

TrapecioCompuesto ==
  /\ called = "none"
  /\ called' = "trapecio_compuesto"
  /\ outcome' = trapecio_compuesto(req.func, req.a, req.b, req.n)
  /\ UNCHANGED req

Simpson13Compuesto ==
  /\ called = "none"
  /\ called' = "simpson_13_compuesto"
  /\ outcome' = simpson_13_compuesto(req.func, req.a, req.b, req.n)
  /\ UNCHANGED req

Simpson38Compuesto ==
  /\ called = "none"
  /\ called' = "simpson_38_compuesto"
  /\ outcome' = simpson_38_compuesto(req.func, req.a, req.b, req.n)
  /\ UNCHANGED req

GaussLegendre ==
  /\ called = "none"
  /\ called' = "gauss_legendre"
  /\ outcome' = gauss_legendre(req.func, req.a, req.b, req.n)
  /\ UNCHANGED req

NextIntegration ==
  \/ TrapecioCompuesto
  \/ Simpson13Compuesto
  \/ Simpson38Compuesto
  \/ GaussLegendre

SpecIntegration == InitIntegration /\ [][NextIntegration]_vars

\* Calls of gauss_legendre on polynomials (2x + 1 among them), computed with
\* the stored table: every rule of the table and the first rule numpy computes.
GaussTableRequests ==
  {[func |-> f, a |-> a, b |-> b, n |-> n] :
     f \in Polys \cup {Linear}, a \in Ends, b \in Ends, n \in 1..(GaussTableMax + 1)}

InitGaussTable ==
  /\ req \in GaussTableRequests
  /\ called = "none"
  /\ outcome = NoOutcome

GaussLegendreTabulated ==
  /\ called = "none"
  /\ called' = "gauss_legendre"
  /\ outcome' = gauss_legendre_tabulated(req.func, req.a, req.b, req.n)
  /\ UNCHANGED req

NextGaussTable == GaussLegendreTabulated

SpecGaussTable == InitGaussTable /\ [][NextGaussTable]_vars

----------------------------------------------------------------------------
(* Numbers of the differentiation engine.  Its step h is tested against    *)
(* both 1.0 and 1e-12, twelve orders of magnitude apart, so a number is    *)
(* kept here as a polynomial in eps = 1e-12 with extended-rational         *)
(* coefficients: p[e] is the coefficient of eps^e, e in -4..4 (x + k*h has *)
(* exponents 0 and 1, a cubic of it up to 3, h**4 has 4, a quotient by     *)
(* h**4 down to -4).  NaN, +inf and -inf are the constant polynomials with *)
(* that coefficient.  The arithmetic is exact; the order of two numbers is *)
(* decided by the lowest power of eps in which they differ, which is right *)
(* as long as the coefficients are within 12 orders of magnitude of each   *)
(* other, as all coefficients of the model are.                            *)

Exps == (-4)..4

\* The function p tabulated, so that its coefficients are computed once.
ETable(p) == p @@ p

EConst(v) == ETable([e \in Exps |-> IF e = 0 THEN v ELSE Zero])

ENaN  == EConst(NaN)
EPInf == EConst(PInf)
ENInf == EConst(NInf)
EZero == EConst(Zero)
EOne  == EConst(One)

\* 1e-12, and v * 1e-12.
Epsilon == ETable([e \in Exps |-> IF e = 1 THEN One ELSE Zero])

Tiny(v) == ETable([e \in Exps |-> IF e = 1 THEN v ELSE Zero])

\* A polynomial with a special coefficient is that special value.
Canon(p) ==
  IF \E e \in Exps : IsNaN(p[e]) THEN ENaN
  ELSE IF (\E e \in Exps : p[e] = PInf) /\ (\E e \in Exps : p[e] = NInf) THEN ENaN
  ELSE IF \E e \in Exps : p[e] = PInf THEN EPInf
  ELSE IF \E e \in Exps : p[e] = NInf THEN ENInf
  ELSE p

EIsNaN(p)    == p = ENaN
EIsInf(p)    == p = EPInf \/ p = ENInf
EIsFinite(p) == ~EIsNaN(p) /\ ~EIsInf(p)

\* The sign of p: that of its lowest power of eps.
ESign(p) ==
  IF \A e \in Exps : p[e][1] = 0 THEN 0
  ELSE LET lead == CHOOSE e \in Exps : p[e][1] # 0 /\ \A d \in Exps : d < e => p[d][1] = 0
       IN  Sgn(p[lead][1])

ENeg(p) == ETable([e \in Exps |-> Neg(p[e])])

EAdd(p, q) == Canon(ETable([e \in Exps |-> Add(p[e], q[e])]))

ESub(p, q) == EAdd(p, ENeg(q))

\* The coefficient of eps^e in p * q: the sum of p[i] * q[e - i], i from lo up.
RECURSIVE Convolve(_, _, _, _)
Convolve(p, q, e, i) ==
  IF i > 4 THEN Zero
  ELSE IF (e - i) \notin Exps \/ p[i] = Zero \/ q[e - i] = Zero
       THEN Convolve(p, q, e, i + 1)
  ELSE Add(Mul(p[i], q[e - i]), Convolve(p, q, e, i + 1))

EMul(p, q) ==
  IF EIsNaN(p) \/ EIsNaN(q) THEN ENaN
  ELSE IF EIsInf(p) \/ EIsInf(q)
       THEN (IF ESign(p) * ESign(q) = 0 THEN ENaN
             ELSE IF ESign(p) * ESign(q) > 0 THEN EPInf ELSE ENInf)
  ELSE ETable([e \in Exps |-> Convolve(p, q, e, -4)])

EScale(k, p) == EMul(EConst(Num(k)), p)

RECURSIVE EPow(_, _)
EPow(p, k) == IF k = 0 THEN EOne ELSE EMul(p, EPow(p, k - 1))

\* p / q for a q of one term, c * eps^k (every divisor of the engine is
\* h**order or 2*h**order, and h is 1 or 1e-12 times a rational).
EDiv(p, q) ==
  LET k == CHOOSE e \in Exps : q[e][1] # 0
      c == q[k]
  IN  IF ~EIsFinite(p) THEN EMul(p, EConst(Num(Sgn(c[1]))))
      ELSE ETable([e \in Exps |-> IF (e + k) \in Exps THEN Div(p[e + k], c) ELSE Zero])

ELt(p, q) ==
  IF EIsNaN(p) \/ EIsNaN(q) \/ p = q THEN FALSE
  ELSE IF ~EIsFinite(p) \/ ~EIsFinite(q) THEN p = ENInf \/ q = EPInf
  ELSE ESign(ESub(p, q)) < 0

ELe(p, q) == ~EIsNaN(p) /\ ~EIsNaN(q) /\ (p = q \/ ELt(p, q))

----------------------------------------------------------------------------
(* src/metodos/derivacion.py                                               *)

\* The compiled callable at a point of the differentiation engine.
RECURSIVE EHorner(_, _, _)
EHorner(c, x, i) ==
  IF i = Len(c) THEN EConst(Num(c[i]))
  ELSE EAdd(EConst(Num(c[i])), EMul(x, EHorner(c, x, i + 1)))

ERaises(func, x) == x = EConst(func.raiseAt)

EEval(func, x) ==
  IF ELt(x, EConst(func.nanBelow)) THEN ENaN
  ELSE IF x = EConst(func.infAt) THEN EPInf
  ELSE EHorner(func.c, x, 1)

\* A call that raised, with the points the callable had been evaluated at.
RaiseAfter(type, msg, names, shows, evals) ==
  [ok |-> FALSE, evals |-> evals,
   error |-> [type |-> type, msg |-> msg, names |-> names, shows |-> shows]]

\* derivacion._parse_function, as integracion's.
parse_function_deriv(func) ==
  IF ~func.ok THEN RaiseAfter("ValueError", "error_al_parsear", {"func_str"}, <<>>, <<>>)
  ELSE IF ERaises(func, EOne)
       THEN RaiseAfter("ValueError", "error_al_parsear", {"func_str"}, <<>>, <<EOne>>)
  ELSE LET test_val == EEval(func, EOne)
       IN  IF EIsNaN(test_val) /\ ~EIsInf(test_val)
           THEN RaiseAfter("ValueError", "error_al_parsear", {"func_str"}, <<>>, <<EOne>>)
           ELSE [ok |-> TRUE, evals |-> <<EOne>>]

MinOrder == 1
MaxOrder == 4

\* An order argument: an int, or a float of the same value (isInt false).
IntOrder(k)   == [isInt |-> TRUE, val |-> k]
FloatOrder(k) == [isInt |-> FALSE, val |-> k]

\* _validate_derivative_params with the lower limit of h excluded.
validate_derivative_params_LimitExcluded(x, h, order) ==
  IF EIsNaN(x) \/ EIsInf(x)
    THEN RaiseAfter("ValueError", "punto_x_no_valido", {"x"}, <<x>>, <<>>)
  ELSE IF ELe(h, EZero) \/ EIsNaN(h) \/ EIsInf(h)
    THEN RaiseAfter("ValueError", "paso_h_debe_ser_positivo", {"h"}, <<h>>, <<>>)
  ELSE IF ELt(EOne, h)
    THEN RaiseAfter("ValueError", "paso_h_demasiado_grande", {"h"}, <<h>>, <<>>)
  ELSE IF ELe(h, Epsilon)
    THEN RaiseAfter("ValueError", "paso_h_demasiado_pequeno", {"h"}, <<h>>, <<>>)
  ELSE IF ~order.isInt \/ order.val < MinOrder \/ order.val > MaxOrder
    THEN RaiseAfter("ValueError", "orden_debe_ser_1_2_3_4", {}, <<EConst(Num(order.val))>>, <<>>)
  ELSE [ok |-> TRUE, evals |-> <<>>]

validate_derivative_params(x, h, order) ==
  IF EIsNaN(x) \/ EIsInf(x)
    THEN RaiseAfter("ValueError", "punto_x_no_valido", {"x"}, <<x>>, <<>>)
  ELSE IF ELe(h, EZero) \/ EIsNaN(h) \/ EIsInf(h)
    THEN RaiseAfter("ValueError", "paso_h_debe_ser_positivo", {"h"}, <<h>>, <<>>)
  ELSE IF ELt(EOne, h)
    THEN RaiseAfter("ValueError", "paso_h_demasiado_grande", {"h"}, <<h>>, <<>>)
  ELSE IF ELt(h, Epsilon)
    THEN RaiseAfter("ValueError", "paso_h_demasiado_pequeno", {"h"}, <<h>>, <<>>)
  ELSE IF ~order.isInt \/ order.val < MinOrder \/ order.val > MaxOrder
    THEN RaiseAfter("ValueError", "orden_debe_ser_1_2_3_4", {}, <<EConst(Num(order.val))>>, <<>>)
  ELSE [ok |-> TRUE, evals |-> <<>>]

\* The stencils.  offsets: the points x + k*h in the order the code evaluates
\* them; coefs: the coefficient of f at each of them; the divisor.
ForwardOffsets(order) == [i \in 1..(order + 1) |-> i - 1]

\* ForwardCoefs without the signs.
ForwardCoefs_Unsigned(order) ==
  CASE order = 1 -> <<1, 1>>
    [] order = 2 -> <<1, 2, 1>>
    [] order = 3 -> <<1, 3, 3, 1>>
    [] order = 4 -> <<1, 4, 6, 4, 1>>

ForwardCoefs(order) ==
  CASE order = 1 -> <<-1, 1>>
    [] order = 2 -> <<1, -2, 1>>
    [] order = 3 -> <<-1, 3, -3, 1>>
    [] order = 4 -> <<1, -4, 6, -4, 1>>

BackwardOffsets(order) == [i \in 1..(order + 1) |-> 1 - i]

BackwardCoefs(order) ==
  CASE order = 1 -> <<1, -1>>
    [] order = 2 -> <<1, -2, 1>>
    [] order = 3 -> <<1, -3, 3, -1>>
    [] order = 4 -> <<1, -4, 6, -4, 1>>

CentralOffsets(order) ==
  CASE order = 1 -> <<1, -1>>
    [] order = 2 -> <<0, 1, -1>>
    [] order = 3 -> <<2, 1, -1, -2>>
    [] order = 4 -> <<0, 1, -1, 2, -2>>

CentralCoefs(order) ==
  CASE order = 1 -> <<1, -1>>
    [] order = 2 -> <<-2, 1, 1>>
    [] order = 3 -> <<1, -2, 2, -1>>
    [] order = 4 -> <<6, -4, -4, 1, 1>>

PowerDivisor(h, order) == EPow(h, order)

\* CentralDivisor without the factor 2 of the orders 1 and 3.
CentralDivisor_NoDoubling(h, order) == EPow(h, order)

CentralDivisor(h, order) ==
  IF order = 1 \/ order = 3 THEN EScale(2, EPow(h, order)) ELSE EPow(h, order)

StencilPoints(x, h, offsets) ==
  [i \in 1..Len(offsets) |-> EAdd(x, EScale(offsets[i], h))]

RECURSIVE WeightedSum(_, _, _)
WeightedSum(coefs, fs, i) ==
  IF i > Len(coefs) THEN EZero
  ELSE EAdd(EScale(coefs[i], fs[i]), WeightedSum(coefs, fs, i + 1))

\* np.isnan(derivative) or np.isinf(derivative), with the isinf test dropped.
NotANumber_NaNOnly(derivative) == EIsNaN(derivative)

NotANumber(derivative) == EIsNaN(derivative) \/ EIsInf(derivative)

\* The body the three methods share: validate, compile, evaluate the stencil
\* inside try, test the derivative, and wrap whatever was raised inside try.
FiniteDifference(func, x, h, order, offsets, coefs, divisor, wrapper) ==
  LET v == validate_derivative_params(x, h, order) IN
  IF ~v.ok THEN v ELSE
  LET p == parse_function_deriv(func) IN
  IF ~p.ok THEN p ELSE
  LET pts == StencilPoints(x, h, offsets) IN
  IF \E i \in 1..Len(pts) : ERaises(func, pts[i])
  THEN LET first == CHOOSE i \in 1..Len(pts) :
                      ERaises(func, pts[i]) /\ \A j \in 1..(i - 1) : ~ERaises(func, pts[j])
       IN  RaiseAfter("ValueError", wrapper, {}, <<>>, p.evals \o SubSeq(pts, 1, first))
  ELSE
  LET fs == [i \in 1..Len(pts) |-> EEval(func, pts[i])]
      derivative == EDiv(WeightedSum(coefs, fs, 1), divisor)
  IN  IF NotANumber(derivative)
      THEN RaiseAfter("ValueError", wrapper, {"h"}, <<derivative>>, p.evals \o pts)
      ELSE [ok |-> TRUE, evals |-> p.evals \o pts, result |-> derivative,
            formula |-> [offsets |-> offsets, coefs |-> coefs, order |-> order.val]]

diff_adelante(func, x, h, order) ==
  FiniteDifference(func, x, h, order, ForwardOffsets(order.val), ForwardCoefs(order.val),
                   PowerDivisor(h, order.val), "error_al_calcular_derivada_hacia_adelante")

diff_atras(func, x, h, order) ==
  FiniteDifference(func, x, h, order, BackwardOffsets(order.val), BackwardCoefs(order.val),
                   PowerDivisor(h, order.val), "error_al_calcular_derivada_hacia_atras")

diff_centrada(func, x, h, order) ==
  FiniteDifference(func, x, h, order, CentralOffsets(order.val), CentralCoefs(order.val),
                   CentralDivisor(h, order.val), "error_al_calcular_derivada_centrada")

EAbs(p) == IF ESign(p) < 0 THEN ENeg(p) ELSE p

\* sp.diff(expr, x, order) for the polynomial of coefficients c: the
\* coefficients of its derivative, and of its derivative of a given order.
Differentiated(c) ==
  IF Len(c) = 1 THEN <<0>> ELSE [i \in 1..(Len(c) - 1) |-> i * c[i + 1]]

RECURSIVE DifferentiatedTimes(_, _)
DifferentiatedTimes(c, order) ==
  IF order = 0 THEN c ELSE DifferentiatedTimes(Differentiated(c), order - 1)

ExactDerivative(func, x, order) == EHorner(DifferentiatedTimes(func.c, order), x, 1)

MethodNames == <<"adelante", "atras", "centrada">>

\* BestMethod with a later method winning a tie.
BestMethod_LastMinimal(errors) ==
  LET first == IF ELe(errors.atras, errors.adelante) THEN "atras" ELSE "adelante"
  IN  IF ELe(errors.centrada, errors[first]) THEN "centrada" ELSE first

\* min(errors.keys(), key=lambda k: errors[k]): the keys are visited in the
\* order they were inserted and a key replaces the current one only when its
\* error is smaller.
BestMethod(errors) ==
  LET first == IF ELt(errors.atras, errors.adelante) THEN "atras" ELSE "adelante"
  IN  IF ELt(errors.centrada, errors[first]) THEN "centrada" ELSE first

ComparisonFailed(out) ==
  RaiseAfter("ValueError", "error_en_comparacion_de_metodos",
             out.error.names, out.error.shows, out.evals)

\* The comparison of three estimates that were returned.
Comparison(func, x, order, ad, at, ce) ==
  LET exact  == ExactDerivative(func, x, order.val)
      errors == [adelante |-> EAbs(ESub(ad, exact)),
                 atras    |-> EAbs(ESub(at, exact)),
                 centrada |-> EAbs(ESub(ce, exact))]
  IN  [ok |-> TRUE, adelante |-> ad, atras |-> at, centrada |-> ce, exact |-> exact,
       errors |-> errors, best_method |-> BestMethod(errors)]

CompareOutcomes(func, x, order, ad, at, ce) ==
  IF ~ad.ok THEN ComparisonFailed(ad)
  ELSE IF ~at.ok THEN ComparisonFailed(at)
  ELSE IF ~ce.ok THEN ComparisonFailed(ce)
  ELSE Comparison(func, x, order, ad.result, at.result, ce.result)

compare_methods(func, x, h, order) ==
  CompareOutcomes(func, x, order,
                  diff_adelante(func, x, h, order), diff_atras(func, x, h, order),
                  diff_centrada(func, x, h, order))

----------------------------------------------------------------------------
(* The calls of the differentiation engine.                                *)

\* Callables with a NaN, infinite or raising value at a stencil point, and a
\* string that does not compile.
\* The polynomials c1*x + c2*x^2 + c3*x^3 differentiated.
DerivPolys == {Poly(<<0, c1, c2, c3>>) : c1 \in {0, 1}, c2 \in HighCoefs, c3 \in HighCoefs}

\* The constant function 1.
ConstantOne == Poly(<<1, 0, 0, 0>>)

DerivBadFuncs ==
     {[Linear EXCEPT !.nanBelow = Num(k)] : k \in {0, 2}}
  \cup {[Linear EXCEPT !.infAt = Num(k)] : k \in {0, 1, 2}}
  \cup {[Linear EXCEPT !.raiseAt = Num(k)] : k \in {0, 1, 2}}
  \cup {[Linear EXCEPT !.ok = FALSE]}

\* Evaluation points: 0, 1, and the non-finite values.
DerivPoints == {EConst(v) : v \in {Zero, One} \cup NonFinite}

\* Steps: non-finite, negative, zero, 0.5e-12, 1e-12, 0.01, 1, 2.
DerivSteps ==
     {EConst(v) : v \in NonFinite \cup {Num(-1), Zero, <<1, 100>>, One, Num(2)}}
  \cup {Tiny(v) : v \in {Half, One}}

\* Orders 0..5 as ints, and 2.0.
DerivOrders == {IntOrder(k) : k \in (MinOrder - 1)..(MaxOrder + 1)} \cup {FloatOrder(2)}

DerivativeRequests ==
  {[func |-> f, x |-> x, h |-> h, order |-> k] :
     f \in DerivPolys \cup DerivBadFuncs \cup {ConstantOne},
     x \in DerivPoints, h \in DerivSteps, k \in DerivOrders}

InitDerivative ==
  /\ req \in DerivativeRequests
  /\ called = "none"
  /\ outcome = NoOutcome

DiffAdelante ==
  /\ called = "none"
  /\ called' = "diff_adelante"
  /\ outcome' = diff_adelante(req.func, req.x, req.h, req.order)
  /\ UNCHANGED req

DiffAtras ==
  /\ called = "none"
  /\ called' = "diff_atras"
  /\ outcome' = diff_atras(req.func, req.x, req.h, req.order)
  /\ UNCHANGED req

DiffCentrada ==
  /\ called = "none"
  /\ called' = "diff_centrada"
  /\ outcome' = diff_centrada(req.func, req.x, req.h, req.order)
  /\ UNCHANGED req

CompareMethods ==
  /\ called = "none"
  /\ called' = "compare_methods"
  /\ outcome' = compare_methods(req.func, req.x, req.h, req.order)
  /\ UNCHANGED req

NextDerivative ==
  \/ DiffAdelante
  \/ DiffAtras
  \/ DiffCentrada
  \/ CompareMethods

SpecDerivative == InitDerivative /\ [][NextDerivative]_vars

----------------------------------------------------------------------------
(* Python floats of the interpolation engine: m * 10^e, with m an extended *)
(* rational and e a decimal exponent.  Zero and the non-finite values have *)
(* e = 0.  A result above the largest double (1.7977e308) is +-inf, one    *)
(* below the smallest (1e-323) is 0.  Arithmetic on values of one exponent *)
(* is exact; a sum of two values of different exponents is the one of the  *)
(* larger exponent (the exponents of the model's inputs, -20, 0 and 308,   *)
(* differ by more than the 17 significant digits of a double).             *)

\* The mantissa of the largest double at e = 308.
LargestDouble == <<17977, 10000>>

Flt(m, e) ==
  IF ~IsFinite(m) \/ m = Zero THEN [m |-> m, e |-> 0]
  ELSE IF e > 308 \/ (e = 308 /\ Lt(LargestDouble, AbsV(m)))
       THEN [m |-> <<Sgn(m[1]), 0>>, e |-> 0]
  ELSE IF e < -323 THEN [m |-> Zero, e |-> 0]
  ELSE [m |-> m, e |-> e]

FNum(v) == Flt(v, 0)

FNaN  == FNum(NaN)
FPInf == FNum(PInf)
FNInf == FNum(NInf)
FZero == FNum(Zero)
FOne  == FNum(One)

\* 1e308 and 1e-20.
Huge      == Flt(One, 308)
Minuscule == Flt(One, -20)

FIsNaN(a)    == IsNaN(a.m)
FIsFinite(a) == IsFinite(a.m)

FSign(a) == Sgn(a.m[1])

FNeg(a) == [m |-> Neg(a.m), e |-> a.e]

FAdd(a, b) ==
  IF ~FIsFinite(a) \/ ~FIsFinite(b) THEN FNum(Add(a.m, b.m))
  ELSE IF a.m = Zero THEN b
  ELSE IF b.m = Zero THEN a
  ELSE IF a.e = b.e THEN Flt(Add(a.m, b.m), a.e)
  ELSE IF a.e > b.e THEN a ELSE b

FSub(a, b) == FAdd(a, FNeg(b))

FMul(a, b) == Flt(Mul(a.m, b.m), a.e + b.e)

\* a / b.  No divisor of the engine is zero: the nodes are distinct.
FDiv(a, b) == Flt(Div(a.m, b.m), a.e - b.e)

FLt(a, b) ==
  IF FIsNaN(a) \/ FIsNaN(b) \/ a = b THEN FALSE
  ELSE FSign(FSub(a, b)) < 0

FLe(a, b) == ~FIsNaN(a) /\ ~FIsNaN(b) /\ (a = b \/ FLt(a, b))

FAbs(a) == [m |-> AbsV(a.m), e |-> a.e]

\* The function s over 1..n as a tuple, so that its entries are computed once.
Tabulated(s) == SubSeq(s, 1, Len(s))

----------------------------------------------------------------------------
(* src/metodos/derivacion.py: estimate_error.  It validates nothing and    *)
(* only formats h and h**2, so h is any float here, with its magnitude.    *)

\* h**2: Python raises OverflowError where the square of a finite float is
\* not representable (an infinite or NaN h has a square, inf or nan).
SquareOverflows(h) == FIsFinite(h) /\ ~FIsFinite(FMul(h, h))

\* TruncationOrder with the two orders exchanged.
TruncationOrder_Swapped(method) == IF method = "centrada" THEN 1 ELSE 2

\* 2 if method == "centrada" else 1.
TruncationOrder(method) == IF method = "centrada" THEN 2 ELSE 1

\* error_formulas.get(method, {}).get(order, "Error no disponible"): the
\* power of h the text states and the value it shows; power 0 is the text
\* "Error no disponible".
ErrorFormula(h, method, order) ==
  IF order \notin MinOrder..MaxOrder THEN [power |-> 0, shows |-> <<>>]
  ELSE IF method \in {"adelante", "atras"} THEN [power |-> 1, shows |-> <<h>>]
  ELSE IF method = "centrada" THEN [power |-> 2, shows |-> <<FMul(h, h)>>]
  ELSE [power |-> 0, shows |-> <<>>]

estimate_error(func, x, h, method, order) ==
  IF SquareOverflows(h)
  THEN Raise("OverflowError", "numerical_result_out_of_range", {}, <<>>)
  ELSE [ok |-> TRUE, method |-> method, order |-> order,
        error_formula |-> ErrorFormula(h, method, order.val),
        truncation_order |-> TruncationOrder(method),
        recommendation |-> IF method # "centrada" THEN "usar_diferencias_centradas"
                           ELSE "metodo_optimo_seleccionado"]

\* The calls of estimate_error: the three methods and a name that is none of
\* them, orders 0..5 and 2.0, and steps from 1e-20 to 1e308, NaN and inf.
EstimateSteps == {Minuscule, FNum(<<1, 100>>), FOne, Flt(One, 200), Huge, FNaN, FPInf, FNeg(FOne)}

EstimateRequests ==
  {[func |-> f, x |-> x, h |-> h, method |-> m, order |-> k] :
     f \in {Poly(<<0, 0, 1, 0>>), Linear}, x \in {FZero, FOne}, h \in EstimateSteps,
     m \in {"adelante", "atras", "centrada", "otro"}, k \in DerivOrders}

InitEstimate ==
  /\ req \in EstimateRequests
  /\ called = "none"
  /\ outcome = NoOutcome

EstimateError ==
  /\ called = "none"
  /\ called' = "estimate_error"
  /\ outcome' = estimate_error(req.func, req.x, req.h, req.method, req.order)
  /\ UNCHANGED req

NextEstimate == EstimateError

SpecEstimate == InitEstimate /\ [][NextEstimate]_vars

----------------------------------------------------------------------------
(* src/metodos/interpolacion.py                                            *)

\* len(set(x)).  NaN is unequal to itself, so the NaNs of x count once each
\* unless they are one float object (sameNaN), which set() finds by identity.
SetSize(x, sameNaN) ==
  LET nans == {i \in DOMAIN x : FIsNaN(x[i])}
  IN  Cardinality({x[i] : i \in DOMAIN x \ nans})
        + (IF sameNaN THEN (IF nans = {} THEN 0 ELSE 1) ELSE Cardinality(nans))

\* The first index of s whose value is NaN or infinite; 0 if there is none.
FirstInvalid(s) ==
  IF \A i \in DOMAIN s : FIsFinite(s[i]) THEN 0
  ELSE CHOOSE i \in DOMAIN s :
         ~FIsFinite(s[i]) /\ \A j \in 1..(i - 1) : FIsFinite(s[j])

\* _validate_input with the numbers of x tested before their uniqueness.
validate_input_NumbersFirst(x, y, sameNaN) ==
  IF Len(x) = 0 \/ Len(y) = 0
    THEN Raise("ValueError", "listas_x_e_y_no_pueden_estar_vacias", {"x", "y"}, <<>>)
  ELSE IF Len(x) # Len(y)
    THEN Raise("ValueError", "x_y_y_misma_longitud", {"x", "y"},
               <<FNum(Num(Len(x))), FNum(Num(Len(y)))>>)
  ELSE IF Len(x) < 2
    THEN Raise("ValueError", "se_requieren_al_menos_2_puntos", {}, <<>>)
  ELSE IF FirstInvalid(x) # 0
    THEN Raise("ValueError", "x_i_no_es_un_numero_valido", {"x"},
               <<FNum(Num(FirstInvalid(x) - 1)), x[FirstInvalid(x)]>>)
  ELSE IF SetSize(x, sameNaN) # Len(x)
    THEN Raise("ValueError", "valores_de_x_deben_ser_unicos", {"x"}, <<>>)
  ELSE IF FirstInvalid(y) # 0
    THEN Raise("ValueError", "y_i_no_es_un_numero_valido", {"y"},
               <<FNum(Num(FirstInvalid(y) - 1)), y[FirstInvalid(y)]>>)
  ELSE Passed

validate_input(x, y, sameNaN) ==
  IF Len(x) = 0 \/ Len(y) = 0
    THEN Raise("ValueError", "listas_x_e_y_no_pueden_estar_vacias", {"x", "y"}, <<>>)
  ELSE IF Len(x) # Len(y)
    THEN Raise("ValueError", "x_y_y_misma_longitud", {"x", "y"},
               <<FNum(Num(Len(x))), FNum(Num(Len(y)))>>)
  ELSE IF Len(x) < 2
    THEN Raise("ValueError", "se_requieren_al_menos_2_puntos", {}, <<>>)
  ELSE IF SetSize(x, sameNaN) # Len(x)
    THEN Raise("ValueError", "valores_de_x_deben_ser_unicos", {"x"}, <<>>)
  ELSE IF FirstInvalid(x) # 0
    THEN Raise("ValueError", "x_i_no_es_un_numero_valido", {"x"},
               <<FNum(Num(FirstInvalid(x) - 1)), x[FirstInvalid(x)]>>)
  ELSE IF FirstInvalid(y) # 0
    THEN Raise("ValueError", "y_i_no_es_un_numero_valido", {"y"},
               <<FNum(Num(FirstInvalid(y) - 1)), y[FirstInvalid(y)]>>)
  ELSE Passed

\* The indices of x by ascending value (list.sort is stable).
RECURSIVE SortedIndices(_, _)
SortedIndices(x, S) ==
  IF S = {} THEN <<>>
  ELSE LET i == CHOOSE i \in S :
                  \A j \in S : ~FLt(x[j], x[i]) /\ (~FLt(x[i], x[j]) => i <= j)
       IN  <<i>> \o SortedIndices(x, S \ {i})

\* The nodes sorted, the ordinates left in the order given.
sort_points_NodesOnly(x, y) ==
  LET p == SortedIndices(x, DOMAIN x)
  IN  [x |-> Tabulated([k \in 1..Len(p) |-> x[p[k]]]), y |-> y]

sort_points(x, y) ==
  LET p == SortedIndices(x, DOMAIN x)
  IN  [x |-> Tabulated([k \in 1..Len(p) |-> x[p[k]]]),
       y |-> Tabulated([k \in 1..Len(p) |-> y[p[k]]])]

\* yi before its first assignment.
Unbound == [unbound |-> TRUE]

\* Extrapolation below x_sorted[0], with the first two points.
ExtrapolateBelow(xs, ys, xi) ==
  LET slope == FDiv(FSub(ys[2], ys[1]), FSub(xs[2], xs[1]))
  IN  FAdd(ys[1], FMul(slope, FSub(xi, xs[1])))

\* Extrapolation above x_sorted[-1] with the slope of the first two points.
ExtrapolateAbove_FirstSegment(xs, ys, xi) ==
  LET n == Len(xs)
      slope == FDiv(FSub(ys[2], ys[1]), FSub(xs[2], xs[1]))
  IN  FAdd(ys[n], FMul(slope, FSub(xi, xs[n])))

\* Extrapolation above x_sorted[-1], with the last two points.
ExtrapolateAbove(xs, ys, xi) ==
  LET n == Len(xs)
      slope == FDiv(FSub(ys[n], ys[n - 1]), FSub(xs[n], xs[n - 1]))
  IN  FAdd(ys[n], FMul(slope, FSub(xi, xs[n])))

\* The convex combination on segment i.
Segment(xs, ys, xi, i) ==
  LET t == FDiv(FSub(xi, xs[i]), FSub(xs[i + 1], xs[i]))
  IN  FAdd(FMul(FSub(FOne, t), ys[i]), FMul(t, ys[i + 1]))

\* One pass of the loop over xq: the new value of yi.  A query that is in no
\* segment and not outside the nodes (a NaN) leaves yi as it was.
LinearPoint(xs, ys, xi, yi) ==
  LET n == Len(xs)
      inside == {i \in 1..(n - 1) : FLe(xs[i], xi) /\ FLe(xi, xs[i + 1])}
  IN  IF FLt(xi, xs[1]) \/ FLt(xs[n], xi)
      THEN (IF FLt(xi, xs[1]) THEN ExtrapolateBelow(xs, ys, xi)
            ELSE ExtrapolateAbove(xs, ys, xi))
      ELSE IF inside # {}
      THEN Segment(xs, ys, xi, CHOOSE i \in inside : \A j \in inside : i <= j)
      ELSE yi

RECURSIVE LinearLoop(_, _, _, _, _, _)
LinearLoop(xs, ys, xq, k, yi, result) ==
  IF k > Len(xq) THEN [ok |-> TRUE, result |-> result]
  ELSE LET new == LinearPoint(xs, ys, xq[k], yi)
       IN  IF new = Unbound
           THEN Raise("UnboundLocalError", "yi_referenced_before_assignment", {}, <<>>)
           ELSE LinearLoop(xs, ys, xq, k + 1, new, Append(result, new))

\* linear_interpolate once the points are validated and sorted (s).
LinearSorted(s, xq) ==
  IF Len(xq) = 0 THEN Raise("ValueError", "xq_no_puede_estar_vacio", {"xq"}, <<>>)
  ELSE LinearLoop(s.x, s.y, xq, 1, Unbound, <<>>)

linear_interpolate(x, y, xq, sameNaN) ==
  LET v == validate_input(x, y, sameNaN)
  IN  IF ~v.ok THEN v ELSE LinearSorted(sort_points(x, y), xq)

\* abs(denominator) < 1e-15.
NearZero(denominator) == FLt(FAbs(denominator), Flt(One, -15))

\* F[i][j] with the node one row down as the far node of the denominator.
RECURSIVE DividedDifference_NextNode(_, _, _, _)
DividedDifference_NextNode(xs, ys, i, j) ==
  IF j = 0 THEN ys[i]
  ELSE FDiv(FSub(DividedDifference_NextNode(xs, ys, i + 1, j - 1),
                 DividedDifference_NextNode(xs, ys, i, j - 1)),
            FSub(xs[i + 1], xs[i]))

\* F[i][j] of the table (rows and nodes from 1, columns from 0).
RECURSIVE DividedDifference(_, _, _, _)
DividedDifference(xs, ys, i, j) ==
  IF j = 0 THEN ys[i]
  ELSE FDiv(FSub(DividedDifference(xs, ys, i + 1, j - 1),
                 DividedDifference(xs, ys, i, j - 1)),
            FSub(xs[i + j], xs[i]))

\* The table of the sorted points s: the nodes and the first row, or the
\* error of the first denominator, in loop order, that is near zero.
DividedDiffsTable(s) ==
  LET n == Len(s.x)
      near == {c \in (1..(n - 1)) \X (1..n) :
                 c[2] <= n - c[1] /\ NearZero(FSub(s.x[c[2] + c[1]], s.x[c[2]]))}
  IN  IF near # {}
      THEN LET c == CHOOSE c \in near :
                      \A d \in near : c[1] < d[1] \/ (c[1] = d[1] /\ c[2] <= d[2])
           IN  Raise("ValueError", "division_por_cero_en_diferencias_divididas", {"x"},
                     <<FNum(Num(c[2] + c[1] - 1)), FNum(Num(c[2] - 1))>>)
      ELSE [ok |-> TRUE, x_sorted |-> s.x,
            coefficients |-> Tabulated([j \in 1..n |-> DividedDifference(s.x, s.y, 1, j - 1)])]

newton_divided_diffs(x, y, sameNaN) ==
  LET v == validate_input(x, y, sameNaN)
  IN  IF ~v.ok THEN v ELSE DividedDiffsTable(sort_points(x, y))

\* value after the loop has gone from i = n - 2 down to i (nodes from 1).
RECURSIVE NewtonValue(_, _, _, _)
NewtonValue(x_nodes, coefficients, xi, i) ==
  IF i = Len(coefficients) THEN coefficients[i]
  ELSE FAdd(FMul(NewtonValue(x_nodes, coefficients, xi, i + 1), FSub(xi, x_nodes[i])),
            coefficients[i])

eval_newton_poly(x_nodes, coefficients, xq) ==
  IF Len(x_nodes) # Len(coefficients)
    THEN Raise("ValueError", "x_nodes_y_coefficients_misma_longitud",
               {"x_nodes", "coefficients"}, <<>>)
  ELSE IF Len(xq) > 0 /\ Len(coefficients) = 0
    THEN Raise("IndexError", "list_index_out_of_range", {}, <<>>)
  ELSE [ok |-> TRUE,
        result |-> Tabulated([k \in 1..Len(xq) |-> NewtonValue(x_nodes, coefficients, xq[k], 1)])]

\* li after the inner loop has passed j (nodes from 1).
RECURSIVE LagrangeBasis(_, _, _, _)
LagrangeBasis(x, xi, i, j) ==
  IF j = 0 THEN FOne
  ELSE IF j = i THEN LagrangeBasis(x, xi, i, j - 1)
  ELSE FMul(LagrangeBasis(x, xi, i, j - 1), FDiv(FSub(xi, x[j]), FSub(x[i], x[j])))

\* total after the outer loop has passed i.
RECURSIVE LagrangeTotal(_, _, _, _)
LagrangeTotal(x, y, xi, i) ==
  IF i = 0 THEN FZero
  ELSE FAdd(LagrangeTotal(x, y, xi, i - 1), FMul(y[i], LagrangeBasis(x, xi, i, Len(x))))

lagrange_interpolate(x, y, xq, sameNaN) ==
  LET v == validate_input(x, y, sameNaN) IN
  IF ~v.ok THEN v ELSE
  LET n == Len(x)
      near == {c \in (1..n) \X (1..n) : c[1] # c[2] /\ NearZero(FSub(x[c[1]], x[c[2]]))}
  IN  IF Len(xq) > 0 /\ near # {}
      THEN LET c == CHOOSE c \in near :
                      \A d \in near : c[1] < d[1] \/ (c[1] = d[1] /\ c[2] <= d[2])
           IN  Raise("ValueError", "division_por_cero_en_lagrange", {"x"},
                     <<FNum(Num(c[1] - 1)), FNum(Num(c[2] - 1))>>)
      ELSE [ok |-> TRUE,
            result |-> Tabulated([k \in 1..Len(xq) |-> LagrangeTotal(x, y, xq[k], n)])]

\* h = [x_sorted[i + 1] - x_sorted[i] for i in range(n - 1)].
Spacings(xs) == Tabulated([i \in 1..(Len(xs) - 1) |-> FSub(xs[i + 1], xs[i])])

\* Row i of the tridiagonal system A * m = b of the inner second derivatives:
\* A[i, i - 1] = h[i], A[i, i] = 2 * (h[i] + h[i + 1]), A[i, i + 1] = h[i + 1].
SplineDiagonal(h, i) == FMul(FNum(Num(2)), FAdd(h[i], h[i + 1]))

SplineRhs(h, ys, i) ==
  FMul(FNum(Num(6)), FSub(FDiv(FSub(ys[i + 2], ys[i + 1]), h[i + 1]),
                          FDiv(FSub(ys[i + 1], ys[i]), h[i])))

\* np.linalg.solve(A, b) by elimination, row i from row i - 1 (prev); the
\* matrix is diagonally dominant, so that no rows are exchanged.  A row is
\* kept as m[i] = d - c * m[i + 1].
RECURSIVE Eliminate(_, _, _, _)
Eliminate(h, ys, i, prev) ==
  IF i > Len(h) - 1 THEN <<>>
  ELSE LET pivot == IF i = 1 THEN SplineDiagonal(h, i)
                    ELSE FSub(SplineDiagonal(h, i), FMul(h[i], prev.c))
           rhs   == IF i = 1 THEN SplineRhs(h, ys, i)
                    ELSE FSub(SplineRhs(h, ys, i), FMul(h[i], prev.d))
           row   == [c |-> IF i < Len(h) - 1 THEN FDiv(h[i + 1], pivot) ELSE FZero,
                     d |-> FDiv(rhs, pivot)]
       IN  <<row>> \o Eliminate(h, ys, i + 1, row)

RECURSIVE BackSubstitute(_, _)
BackSubstitute(rows, i) ==
  IF i = Len(rows) THEN <<rows[i].d>>
  ELSE LET rest == BackSubstitute(rows, i + 1)
       IN  <<FSub(rows[i].d, FMul(rows[i].c, rest[1]))>> \o rest

\* second_derivs: zero at both ends (natural spline), the solution between.
SecondDerivs(h, ys) ==
  <<FZero>> \o BackSubstitute(Eliminate(h, ys, 1, [c |-> FZero, d |-> FZero]), 1)
            \o <<FZero>>

\* dx**2 and dx**3 are powers of a Python float: OverflowError where the
\* cube of a finite dx is not representable.
Overflowed == [overflowed |-> TRUE]

SplineCubic(xs, ys, h, sd, xi, i) ==
  LET dx == FSub(xi, xs[i])
      dx2 == FMul(dx, dx)
      dx3 == FMul(dx2, dx)
  IN  IF FIsFinite(dx) /\ ~FIsFinite(dx3) THEN Overflowed
      ELSE FAdd(FAdd(FAdd(ys[i],
                  FMul(dx, FSub(FDiv(FSub(ys[i + 1], ys[i]), h[i]),
                                FDiv(FMul(h[i], FAdd(FMul(FNum(Num(2)), sd[i]), sd[i + 1])),
                                     FNum(Num(6)))))),
                  FDiv(FMul(dx2, sd[i]), FNum(Num(2)))),
                  FDiv(FMul(dx3, FSub(sd[i + 1], sd[i])), FMul(FNum(Num(6)), h[i])))

\* One pass of the loop over xq: the new value of yi.  A NaN query is in no
\* branch and leaves yi as it was.
SplinePoint(xs, ys, h, sd, xi, yi) ==
  LET n == Len(xs)
      inside == {i \in 1..(n - 1) : FLe(xs[i], xi) /\ FLe(xi, xs[i + 1])}
  IN  IF FLe(xi, xs[1])
      THEN FAdd(ys[1], FMul(FDiv(FSub(ys[2], ys[1]), h[1]), FSub(xi, xs[1])))
      ELSE IF FLe(xs[n], xi)
      THEN FAdd(ys[n], FMul(FDiv(FSub(ys[n], ys[n - 1]), h[n - 1]), FSub(xi, xs[n])))
      ELSE IF inside # {}
      THEN SplineCubic(xs, ys, h, sd, xi, CHOOSE i \in inside : \A j \in inside : i <= j)
      ELSE yi

RECURSIVE SplineLoop(_, _, _, _, _, _, _, _)
SplineLoop(xs, ys, h, sd, xq, k, yi, result) ==
  IF k > Len(xq) THEN [ok |-> TRUE, result |-> result]
  ELSE LET new == SplinePoint(xs, ys, h, sd, xq[k], yi)
       IN  IF new = Unbound
           THEN Raise("UnboundLocalError", "yi_referenced_before_assignment", {}, <<>>)
           ELSE IF new = Overflowed
           THEN Raise("OverflowError", "numerical_result_out_of_range", {}, <<>>)
           ELSE SplineLoop(xs, ys, h, sd, xq, k + 1, new, Append(result, new))

\* The spline of three or more sorted points (s) with spacings h.
SplineSpaced(s, h, xq) ==
  SplineLoop(s.x, s.y, h, SecondDerivs(h, s.y), xq, 1, Unbound, <<>>)

\* cubic_spline_interpolate once the points are validated and sorted (s).
SplineSorted(s, xq, sameNaN) ==
  IF Len(s.x) < 3 THEN linear_interpolate(s.x, s.y, xq, sameNaN)
  ELSE SplineSpaced(s, Spacings(s.x), xq)

cubic_spline_interpolate(x, y, xq, sameNaN) ==
  LET v == validate_input(x, y, sameNaN)
  IN  IF ~v.ok THEN v ELSE SplineSorted(sort_points(x, y), xq, sameNaN)

----------------------------------------------------------------------------
(* The calls of the interpolation engine.                                  *)

MaxPoints == 3

\* Node and sample values of the well-formed sample sets, and the queries:
\* below, at, between and above the nodes.
NodeValues   == {FNum(Num(k)) : k \in {0, 1, 2, 4}}
Ordinates    == {FNum(Num(k)) : k \in {-1, 0, 2}}
Queries      == {FNum(Num(k)) : k \in {-1, 0, 1, 3, 4, 5}} \cup {FNum(Half), FNum(<<5, 2>>)}

\* The sequences over S of length n, and those among them without repetition.
SeqsOfLen(S, n) == [1..n -> S]

DistinctSeqsOfLen(S, n) ==
  {s \in SeqsOfLen(S, n) : \A i \in 1..n : \A j \in 1..n : s[i] = s[j] => i = j}

QueryLists == {<<q>> : q \in Queries} \cup {<<>>, <<FNum(Half), FNum(Num(5))>>}

\* Well-formed sample sets of n points in every input order.
OrdinaryOfLen(n) ==
  {[x |-> x, y |-> y, xq |-> xq, sameNaN |-> FALSE] :
     x \in DistinctSeqsOfLen(NodeValues, n), y \in SeqsOfLen(Ordinates, n),
     xq \in QueryLists}

RECURSIVE OrdinaryUpTo(_)
OrdinaryUpTo(n) ==
  IF n < 2 THEN {} ELSE OrdinaryOfLen(n) \cup OrdinaryUpTo(n - 1)

OrdinaryRequests == OrdinaryUpTo(MaxPoints)

\* Lists of 0..MaxPoints values with repetitions, NaN and infinities; at
\* most one NaN among the ordinates.
MalformedOrdinates ==
  {y \in UNION {SeqsOfLen({FZero, FNaN}, k) : k \in 0..MaxPoints} :
     \A i \in DOMAIN y : \A j \in DOMAIN y : (y[i] = FNaN /\ y[j] = FNaN) => i = j}

MalformedOfLen(n) ==
  {[x |-> x, y |-> y, xq |-> <<FZero>>, sameNaN |-> b] :
     x \in SeqsOfLen({FZero, FOne, FNaN, FPInf}, n),
     y \in MalformedOrdinates, b \in BOOLEAN}

RECURSIVE MalformedUpTo(_)
MalformedUpTo(n) ==
  IF n < 0 THEN {} ELSE MalformedOfLen(n) \cup MalformedUpTo(n - 1)

MalformedRequests == MalformedUpTo(MaxPoints)

\* Two points with nodes 1e-20 and 1e308 apart, and non-finite queries.
ExtremeValues == {FNeg(Huge), FZero, Minuscule, FOne, Huge}

ExtremeRequests ==
  {[x |-> x, y |-> y, xq |-> xq, sameNaN |-> FALSE] :
     x \in DistinctSeqsOfLen(ExtremeValues, 2),
     y \in {<<FZero, FOne>>, <<FOne, FNum(Num(2))>>, <<FOne, FNInf>>},
     xq \in {<<q>> : q \in ExtremeValues \cup {FNaN, FPInf}} \cup {<<FOne, FNaN>>}}

\* Three points with ordinates 2e308 apart.
SteepRequests ==
  {[x |-> <<FZero, FOne, FNum(Num(2))>>, y |-> y, xq |-> <<q>>, sameNaN |-> FALSE] :
     y \in {<<FNeg(Huge), Huge, FZero>>, <<FZero, FNeg(Huge), Huge>>},
     q \in {FNum(Num(-1)), FZero, FNum(Half), FNum(Num(2)), FNum(Num(3))}}

InterpolationRequests ==
  OrdinaryRequests \cup MalformedRequests \cup ExtremeRequests \cup SteepRequests

InitInterpolation ==
  /\ req \in InterpolationRequests
  /\ called = "none"
  /\ outcome = NoOutcome

LinearInterpolate ==
  /\ called = "none"
  /\ called' = "linear_interpolate"
  /\ outcome' = linear_interpolate(req.x, req.y, req.xq, req.sameNaN)
  /\ UNCHANGED req

\* eval_newton_poly applied to what newton_divided_diffs returned (d), as
\* api_interpolate calls the two; r is what eval_newton_poly returned.
NewtonOutcome(d, r) ==
  IF ~r.ok THEN r
  ELSE [ok |-> TRUE, x_sorted |-> d.x_sorted, coefficients |-> d.coefficients,
        result |-> r.result]

EvalDividedDiffs(d, xq) ==
  IF ~d.ok THEN d
  ELSE NewtonOutcome(d, eval_newton_poly(d.x_sorted, d.coefficients, xq))

newton_interpolate(x, y, xq, sameNaN) ==
  EvalDividedDiffs(newton_divided_diffs(x, y, sameNaN), xq)

NewtonDividedDiffs ==
  /\ called = "none"
  /\ called' = "newton_divided_diffs"
  /\ outcome' = newton_interpolate(req.x, req.y, req.xq, req.sameNaN)
  /\ UNCHANGED req

LagrangeInterpolate ==
  /\ called = "none"
  /\ called' = "lagrange_interpolate"
  /\ outcome' = lagrange_interpolate(req.x, req.y, req.xq, req.sameNaN)
  /\ UNCHANGED req

CubicSplineInterpolate ==
  /\ called = "none"
  /\ called' = "cubic_spline_interpolate"
  /\ outcome' = cubic_spline_interpolate(req.x, req.y, req.xq, req.sameNaN)
  /\ UNCHANGED req

NextInterpolation ==
  \/ LinearInterpolate
  \/ NewtonDividedDiffs
  \/ LagrangeInterpolate
  \/ CubicSplineInterpolate

SpecInterpolation == InitInterpolation /\ [][NextInterpolation]_vars

----------------------------------------------------------------------------
(* A caller that keeps its lists x, y and xq and calls the engine again    *)
(* and again with them.  The module has no global: what one call leaves    *)
(* behind for the next is the caller's lists alone.                        *)

\* The caller's lists once x.sort() and y.sort() had run on them.
CallerListsAfterSort_InPlace(x, y) == sort_points(x, y)

\* The caller's lists once _sort_points has returned: zip copies the pairs
\* into the new list `paired`, sort() reorders that list, and the two lists
\* returned are built from it.
CallerListsAfterSort(x, y) == [x |-> x, y |-> y]

\* The functions that call _sort_points (after _validate_input has passed).
SortingMethods ==
  {"linear_interpolate", "newton_divided_diffs", "cubic_spline_interpolate"}

\* The caller's arguments r after the call of method.
ArgumentsAfter(method, r) ==
  IF method \in SortingMethods /\ validate_input(r.x, r.y, r.sameNaN).ok
  THEN LET s == CallerListsAfterSort(r.x, r.y)
       IN  [r EXCEPT !.x = s.x, !.y = s.y]
  ELSE r

\* What the call of method returns or raises for the arguments r.
InterpolationOutcome(method, r) ==
  CASE method = "linear_interpolate" ->
         linear_interpolate(r.x, r.y, r.xq, r.sameNaN)
    [] method = "newton_divided_diffs" ->
         newton_interpolate(r.x, r.y, r.xq, r.sameNaN)
    [] method = "lagrange_interpolate" ->
         lagrange_interpolate(r.x, r.y, r.xq, r.sameNaN)
    [] method = "cubic_spline_interpolate" ->
         cubic_spline_interpolate(r.x, r.y, r.xq, r.sameNaN)

\* Two or three nodes in every order, with ordinates of either length (so
\* that some calls fail validation) and ordinates 2e308 apart, and query
\* lists that are empty, between and beyond the nodes, or NaN.
SessionRequests ==
  {[x |-> x, y |-> y, xq |-> xq, sameNaN |-> FALSE] :
     x \in DistinctSeqsOfLen(NodeValues, 2) \cup DistinctSeqsOfLen(NodeValues, 3),
     y \in {<<FZero, FNum(Num(2))>>, <<FNum(Num(2)), FNum(Num(-1)), FZero>>,
            <<FNeg(Huge), Huge, FZero>>},
     xq \in {<<>>, <<FNum(Half), FNum(Num(5))>>, <<FNaN>>}}

InitSession ==
  /\ req \in SessionRequests
  /\ called = "none"
  /\ outcome = NoOutcome

\* One more call, whatever was called before.
SessionCall(method) ==
  /\ called' = method
  /\ outcome' = InterpolationOutcome(method, req)
  /\ req' = ArgumentsAfter(method, req)

AgainLinearInterpolate == SessionCall("linear_interpolate")

AgainNewtonDividedDiffs == SessionCall("newton_divided_diffs")

AgainLagrangeInterpolate == SessionCall("lagrange_interpolate")

AgainCubicSplineInterpolate == SessionCall("cubic_spline_interpolate")

NextSession ==
  \/ AgainLinearInterpolate
  \/ AgainNewtonDividedDiffs
  \/ AgainLagrangeInterpolate
  \/ AgainCubicSplineInterpolate

SpecSession == InitSession /\ [][NextSession]_vars

----------------------------------------------------------------------------
(* Properties of the differentiation engine.                               *)

DerivativeMethods == {"diff_adelante", "diff_atras", "diff_centrada"}

DerivativeValidationMessages ==
  {"punto_x_no_valido", "paso_h_debe_ser_positivo", "paso_h_demasiado_grande",
   "paso_h_demasiado_pequeno", "orden_debe_ser_1_2_3_4"}

FailedDerivativeValidation ==
  ~outcome.ok /\ outcome.error.msg \in DerivativeValidationMessages

\* x is non-finite, h <= 0, h > 1.0, h < 1e-12, or order is not an integer in 1..4.
InvalidDerivativeArgs(r) ==
  \/ ~EIsFinite(r.x)
  \/ ELe(r.h, EZero)
  \/ ELt(EOne, r.h)
  \/ ELt(r.h, Epsilon)
  \/ ~r.order.isInt
  \/ r.order.val \notin 1..4

ValidDerivativeArgs(r) ==
  /\ EIsFinite(r.x)
  /\ ELt(EZero, r.h) /\ ELe(Epsilon, r.h) /\ ELe(r.h, EOne)
  /\ r.order.isInt /\ r.order.val \in 1..4

\* C3: diff_adelante, diff_atras and diff_centrada fail with a validation
\* error, before f has been evaluated anywhere, whenever x is non-finite,
\* h <= 0, h > 1.0, h < 1e-12 or order is not an integer in 1..4; valid
\* arguments, the boundary values h = 1e-12, h = 1.0, order = 1 and order = 4
\* among them, pass validation.
C3_DerivativeValidation ==
  called \in DerivativeMethods =>
    /\ InvalidDerivativeArgs(req) => FailedDerivativeValidation /\ outcome.evals = <<>>
    /\ ValidDerivativeArgs(req) => ~FailedDerivativeValidation

\* A call at the two lower boundaries, h = 1e-12 and order = 1, returned a value.
C3_Witness ==
  /\ called = "diff_centrada"
  /\ req.h = Epsilon /\ req.order = IntOrder(1)
  /\ outcome.ok

\* The stencil of a method, and the derivative it computes from f's values.
StencilOffsets(method, order) ==
  CASE method = "diff_adelante" -> ForwardOffsets(order)
    [] method = "diff_atras"    -> BackwardOffsets(order)
    [] method = "diff_centrada" -> CentralOffsets(order)

StencilCoefs(method, order) ==
  CASE method = "diff_adelante" -> ForwardCoefs(order)
    [] method = "diff_atras"    -> BackwardCoefs(order)
    [] method = "diff_centrada" -> CentralCoefs(order)

StencilDivisor(method, h, order) ==
  IF method = "diff_centrada" THEN CentralDivisor(h, order) ELSE PowerDivisor(h, order)

StencilDerivative(method, r) ==
  LET pts == StencilPoints(r.x, r.h, StencilOffsets(method, r.order.val))
      fs  == [i \in 1..Len(pts) |-> EEval(r.func, pts[i])]
  IN  EDiv(WeightedSum(StencilCoefs(method, r.order.val), fs, 1),
           StencilDivisor(method, r.h, r.order.val))

\* The call got as far as computing the derivative: the arguments are valid,
\* f compiled, and f raised at no stencil point.
DerivativeComputed(method, r) ==
  /\ ValidDerivativeArgs(r)
  /\ parse_function_deriv(r.func).ok
  /\ LET pts == StencilPoints(r.x, r.h, StencilOffsets(method, r.order.val))
     IN  \A i \in 1..Len(pts) : ~ERaises(r.func, pts[i])

\* C6: in diff_adelante, diff_atras and diff_centrada, whenever the computed
\* derivative is NaN or infinite the call fails, returning no value, and the
\* error names the step h.
C6_NonFiniteDerivativeFails ==
  (called \in DerivativeMethods /\ DerivativeComputed(called, req)
     /\ ~EIsFinite(StencilDerivative(called, req)))
    => ~outcome.ok /\ "h" \in outcome.error.names

\* A call whose computed derivative was infinite, and that failed.
C6_Witness ==
  /\ called \in DerivativeMethods
  /\ DerivativeComputed(called, req)
  /\ EIsInf(StencilDerivative(called, req))
  /\ ~outcome.ok

\* C13: whenever compare_methods returns, the error reported for each of
\* forward, backward and central is |estimate - exact|, the estimate being what
\* the method returns on the same arguments, no method has a smaller error
\* than best_method, and every method before best_method in the order
\* adelante, atras, centrada has a larger one.
C13_BestMethod ==
  (called = "compare_methods" /\ outcome.ok) =>
    /\ outcome.adelante = diff_adelante(req.func, req.x, req.h, req.order).result
    /\ outcome.atras    = diff_atras(req.func, req.x, req.h, req.order).result
    /\ outcome.centrada = diff_centrada(req.func, req.x, req.h, req.order).result
    /\ \A i \in 1..3 :
         outcome.errors[MethodNames[i]]
           = EAbs(ESub(outcome[MethodNames[i]], outcome.exact))
    /\ \E b \in 1..3 :
         /\ outcome.best_method = MethodNames[b]
         /\ \A i \in 1..3 : ~ELt(outcome.errors[MethodNames[i]], outcome.errors[MethodNames[b]])
         /\ \A i \in 1..(b - 1) :
              ELt(outcome.errors[MethodNames[b]], outcome.errors[MethodNames[i]])

\* C13's case: a three-way tie.  The three estimates of a non-zero derivative
\* are all exact and forward, the first in the order, is reported.
C13_Witness ==
  /\ called = "compare_methods" /\ outcome.ok
  /\ req.func.c[2] # 0
  /\ outcome.exact # EZero
  /\ outcome.errors.adelante = EZero
  /\ outcome.errors.atras = EZero
  /\ outcome.errors.centrada = EZero
  /\ outcome.best_method = "adelante"

StencilMethodNames == {"adelante", "atras", "centrada"}

ReportsTruncationOrder(out, method) ==
  /\ out.ok
  /\ out.truncation_order = (IF method = "centrada" THEN 2 ELSE 1)
  /\ out.error_formula.power = out.truncation_order

Square == Poly(<<0, 0, 1, 0>>)

\* C15: for f(x) = x^2 and order 1, at every finite x and valid h, the forward
\* estimate is 2x + h, the backward one 2x - h and the central one 2x, so
\* that the central estimate is strictly closer to 2x than the other two.
C15_CentralCloser ==
  (req.func = Square /\ req.order = IntOrder(1) /\ ValidDerivativeArgs(req)) =>
    LET exact == EScale(2, req.x) IN
    /\ called = "diff_adelante" => (outcome.ok /\ outcome.result = EAdd(exact, req.h))
    /\ called = "diff_atras"    => (outcome.ok /\ outcome.result = ESub(exact, req.h))
    /\ called = "diff_centrada" => (outcome.ok /\ outcome.result = exact)
    /\ called = "compare_methods" =>
         /\ outcome.ok
         /\ outcome.exact = exact
         /\ outcome.errors.adelante = req.h
         /\ outcome.errors.atras = req.h
         /\ outcome.errors.centrada = EZero
         /\ ELt(outcome.errors.centrada, outcome.errors.adelante)
         /\ ELt(outcome.errors.centrada, outcome.errors.atras)
         /\ outcome.best_method = "centrada"

\* C15's case: x = 1 and h = 0.01; forward returned 2.01.
C15_Witness ==
  /\ called = "diff_adelante" /\ outcome.ok
  /\ req.func = Square /\ req.order = IntOrder(1)
  /\ req.x = EOne /\ req.h = EConst(<<1, 100>>)
  /\ outcome.result = EConst(<<201, 100>>)

\* C(k, j), and (-1)^j.
RECURSIVE Binomial(_, _)
Binomial(k, j) ==
  IF j = 0 \/ j = k THEN 1 ELSE Binomial(k - 1, j - 1) + Binomial(k - 1, j)

Alternating(j) == IF j % 2 = 0 THEN 1 ELSE -1

\* The sum over j = from..k of coef(j) * f(x + dir*j*h).
RECURSIVE BinomialSum(_, _, _, _, _)
BinomialSum(r, dir, k, signAt0, j) ==
  IF j > k THEN EZero
  ELSE EAdd(EScale(signAt0 * Alternating(j) * Binomial(k, j),
                   EEval(r.func, EAdd(r.x, EScale(dir * j, r.h)))),
            BinomialSum(r, dir, k, signAt0, j + 1))

\* (sum over j = 0..k of (-1)^(k-j) C(k,j) f(x + j*h)) / h^k.
ForwardFormula(r) ==
  LET k == r.order.val
  IN  EDiv(BinomialSum(r, 1, k, Alternating(k), 0), EPow(r.h, k))

\* (sum over j = 0..k of (-1)^j C(k,j) f(x - j*h)) / h^k.
BackwardFormula(r) ==
  LET k == r.order.val
  IN  EDiv(BinomialSum(r, -1, k, 1, 0), EPow(r.h, k))

\* The sum of the stencil's coefficients times f at its points, over twice
\* h^k.
OverTwiceThePower(r, out) ==
  LET fs == [i \in 1..Len(out.formula.offsets) |->
               EEval(r.func, EAdd(r.x, EScale(out.formula.offsets[i], r.h)))]
  IN  EDiv(WeightedSum(out.formula.coefs, fs, 1), EScale(2, EPow(r.h, r.order.val)))

RECURSIVE SumOf(_, _)
SumOf(s, i) == IF i > Len(s) THEN 0 ELSE s[i] + SumOf(s, i + 1)

\* The points f was evaluated at after the trial at 1.0 of _parse_function.
StencilEvals(out) == SubSeq(out.evals, 2, Len(out.evals))

\* k + 1 distinct points x + j*h that follow one another at distance h in
\* each direction from x, with coefficients that sum to zero.
StencilShape(r, out) ==
  LET offsets == out.formula.offsets
      pts     == StencilEvals(out)
      k       == r.order.val
  IN  /\ Len(offsets) = k + 1 /\ Len(out.formula.coefs) = k + 1 /\ Len(pts) = k + 1
      /\ \A i \in 1..(k + 1) : pts[i] = EAdd(r.x, EScale(offsets[i], r.h))
      /\ \A i \in 1..(k + 1) : \A j \in 1..(k + 1) : pts[i] = pts[j] => i = j
      /\ \A i \in 1..(k + 1) :
           /\ offsets[i] > 1 => \E j \in 1..(k + 1) : offsets[j] = offsets[i] - 1
           /\ offsets[i] < -1 => \E j \in 1..(k + 1) : offsets[j] = offsets[i] + 1
      /\ SumOf(out.formula.coefs, 1) = 0

IsConstant(func) == \A i \in 2..Len(func.c) : func.c[i] = 0

\* C20: for the orders 1..4, diff_adelante returns
\* (sum_j (-1)^(k-j) C(k,j) f(x + j*h)) / h^k and diff_atras
\* (sum_j (-1)^j C(k,j) f(x - j*h)) / h^k; each of the three methods combines f
\* at k + 1 distinct points h apart in its direction(s) with coefficients
\* that sum to zero, so the derivative of a constant is 0; diff_centrada
\* divides by 2h at order 1 and by 2h^3 at order 3.
C20_Stencils ==
  (called \in DerivativeMethods /\ outcome.ok)
    => /\ called = "diff_adelante" => outcome.result = ForwardFormula(req)
       /\ called = "diff_atras" => outcome.result = BackwardFormula(req)
       /\ StencilShape(req, outcome)
       /\ IsConstant(req.func) => outcome.result = EZero
       /\ (called = "diff_centrada" /\ req.order.val \in {1, 3})
            => outcome.result = OverTwiceThePower(req, outcome)

\* C20 witness: the third forward difference of x^3 with h = 0.01 has been
\* returned, over four points, and is 6.
C20_Witness ==
  /\ called = "diff_adelante"
  /\ req.func = Poly(<<0, 0, 0, 1>>)
  /\ req.h = EConst(<<1, 100>>)
  /\ req.order = IntOrder(3)
  /\ outcome.ok
  /\ Len(StencilEvals(outcome)) = 4
  /\ outcome.result = EConst(Num(6))

\* The constant 1 differentiated by the central stencil of order 3: 0.
C20_ConstantWitness ==
  /\ called = "diff_centrada"
  /\ req.func = ConstantOne
  /\ req.order = IntOrder(3)
  /\ outcome.ok
  /\ outcome.result = EZero

----------------------------------------------------------------------------
(* Properties of the integration engine.                                   *)

IntegrationMethods ==
  {"trapecio_compuesto", "simpson_13_compuesto", "simpson_38_compuesto", "gauss_legendre"}

ValidationMessages ==
  {"limite_inferior_no_valido", "limite_superior_no_valido", "inferior_debe_ser_menor",
   "subdivisiones_entero_positivo", "subdivisiones_demasiado_grande"}

\* a < b finite and 1 <= n <= 10000.
ValidIntegrationArgs(r) ==
  /\ IsFinite(r.a) /\ IsFinite(r.b) /\ Lt(r.a, r.b)
  /\ 1 <= r.n /\ r.n <= MaxSubdivisions

FailedValidation(out) == ~out.ok /\ out.error.msg \in ValidationMessages

SmallestMultipleOf3From(n) == CHOOSE k \in n..(n + 2) : k % 3 = 0

\* C1: whenever simpson_13_compuesto or simpson_38_compuesto returns, the
\* first trace record carries n_adjusted = n for an even n and n + 1 for an
\* odd one (Simpson 1/3), the smallest multiple of 3 that is >= n (Simpson
\* 3/8), and the step it computed with is h = (b - a)/n_adjusted.
C1_NAdjusted ==
  (called \in {"simpson_13_compuesto", "simpson_38_compuesto"} /\ outcome.ok) =>
    LET m == IF called = "simpson_13_compuesto"
             THEN (IF req.n % 2 = 0 THEN req.n ELSE req.n + 1)
             ELSE SmallestMultipleOf3From(req.n)
    IN  /\ outcome.steps[1].n_adjusted = m
        /\ outcome.steps[1].h = Div(Sub(req.b, req.a), Num(m))

\* C1's case: Simpson 3/8 at the largest accepted n, 10000, which is no
\* multiple of 3, ran with 10002 subdivisions.
C1_Witness ==
  /\ called = "simpson_38_compuesto" /\ outcome.ok
  /\ req.n = MaxSubdivisions
  /\ outcome.steps[1].n_adjusted = MaxSubdivisions + 2

\* C2: each of the four integration variants fails with a validation error,
\* returning neither result nor trace, whenever a or b is not finite, a >= b,
\* n < 1 or n > 10000, and never fails validation when a < b are finite and
\* 1 <= n <= 10000.
C2_IntegrationValidation ==
  called \in IntegrationMethods =>
    /\ ~ValidIntegrationArgs(req) =>
         /\ FailedValidation(outcome)
         /\ outcome.error.type = "ValueError"
         /\ DOMAIN outcome = {"ok", "error"}
    /\ ValidIntegrationArgs(req) => ~FailedValidation(outcome)

\* C2's case: the upper limit n = 10000 itself is accepted and the call returns.
C2_Witness ==
  /\ called = "gauss_legendre" /\ req.n = MaxSubdivisions /\ outcome.ok

\* The values f takes at the points a call of the method samples.
SampleValues(method, r) ==
  IF method = "gauss_legendre"
  THEN LET n == Min(r.n, MaxGaussNodes)
       IN  {NodeValue(r.func, r.a, r.b, n, i) : i \in 1..n}
  ELSE LET n == IF method = "simpson_13_compuesto" THEN AdjustEven(r.n)
                ELSE IF method = "simpson_38_compuesto" THEN AdjustMultipleOf3(r.n)
                ELSE r.n
           h == Div(Sub(r.b, r.a), Num(n))
       IN  {Eval(r.func, Add(r.a, Mul(Num(i), h))) : i \in 0..n}

\* C5: in all four integration variants, if f is NaN at a sampled point the
\* call fails, with an error that names the failing x, and returns no result.
C5_UndefinedSampleFails ==
  (/\ called \in IntegrationMethods
   /\ ValidIntegrationArgs(req)
   /\ req.func.ok
   /\ \E v \in SampleValues(called, req) : IsNaN(v))
  => (~outcome.ok /\ "x" \in outcome.error.names)

\* The exact integral of c[1] + c[2] x + c[3] x^2 + c[4] x^3 over [a, b].
RECURSIVE Power(_, _)
Power(x, k) == IF k = 0 THEN One ELSE Mul(x, Power(x, k - 1))

RECURSIVE ExactIntegralFrom(_, _, _, _)
ExactIntegralFrom(c, a, b, k) ==
  IF k > Len(c) THEN Zero
  ELSE Add(Div(Mul(Num(c[k]), Sub(Power(b, k), Power(a, k))), Num(k)),
           ExactIntegralFrom(c, a, b, k + 1))

ExactIntegral(c, a, b) == ExactIntegralFrom(c, a, b, 1)

IsPolynomial(func) == func = Poly(func.c)

Degree(c) == IF \A k \in 1..Len(c) : c[k] = 0 THEN 0
             ELSE (CHOOSE k \in 1..Len(c) : c[k] # 0 /\ \A j \in (k + 1)..Len(c) : c[j] = 0) - 1

Cube == Poly(<<0, 0, 0, 1>>)

\* C10: for a polynomial f, trapecio_compuesto returns the exact integral when
\* the degree is <= 1, simpson_13_compuesto and simpson_38_compuesto return it
\* when the degree is <= 3, for every interval and every accepted n; and for
\* x^3 on [0, 1] what the trapezoid returns is not 1/4.
C10_PolynomialExactness ==
  (called \in IntegrationMethods \ {"gauss_legendre"} /\ outcome.ok /\ IsPolynomial(req.func)) =>
    /\ (called = "trapecio_compuesto" /\ Degree(req.func.c) <= 1)
         => outcome.result = ExactIntegral(req.func.c, req.a, req.b)
    /\ called \in {"simpson_13_compuesto", "simpson_38_compuesto"}
         => outcome.result = ExactIntegral(req.func.c, req.a, req.b)
    /\ (called = "trapecio_compuesto" /\ req.func = Cube /\ req.a = Zero /\ req.b = One)
         => outcome.result # <<1, 4>>

\* C10's case: Simpson 3/8 asked for 4 subdivisions of [0, 1] (it runs with
\* 6) returned exactly 1/4 for x^3.
C10_Witness ==
  /\ called = "simpson_38_compuesto" /\ outcome.ok
  /\ req.func = Cube /\ req.a = Zero /\ req.b = One /\ req.n = 4
  /\ outcome.result = <<1, 4>>

\* Whether the fraction num/den of two integers of any size is the rational v.
FractionIs(f, v) == BigMul(f.num, Big(v[2])) = BigMul(f.den, Big(v[1]))

WeightsSum(n) == BigSum(gauss_data(n).weights, 1)

\* C11: gauss_legendre with n nodes, n in 1..5, computed with the stored table
\* in exact arithmetic, returns the exact integral of every polynomial of
\* degree <= 2n - 1, and the stored weights of the rule sum to exactly 2.
C11_GaussTableExact ==
  (/\ called = "gauss_legendre" /\ outcome.ok
   /\ req.n <= GaussTableMax
   /\ Degree(req.func.c) <= 2 * req.n - 1)
  => /\ FractionIs(outcome.result, ExactIntegral(req.func.c, req.a, req.b))
     /\ WeightsSum(req.n) = BigMul(Big(2), DecimalOne)

\* C12: whenever gauss_legendre returns, it used min(n, 10) nodes: the
\* quadrature sum has one evaluation of f per node of that rule, the weights
\* are those of the stored table for a rule of 1..5 nodes and the computed
\* ones for a rule of 6..10 nodes, and for n > 10 the result and the trace
\* are those of the call with n = 10.
C12_GaussNodeCount ==
  (called = "gauss_legendre" /\ outcome.ok) =>
    LET used == Min(req.n, MaxGaussNodes) IN
    /\ DOMAIN outcome.result.terms = 1..used
    /\ outcome.steps[1].n = used
    /\ DOMAIN outcome.steps[1].weights = 1..used
    /\ \A i \in 1..used :
         /\ outcome.result.terms[i].w.rule = used
         /\ outcome.result.terms[i].w.index = i
         /\ outcome.result.terms[i].w.tabulated = (used <= GaussTableMax)
         /\ outcome.steps[1].weights[i] = outcome.result.terms[i].w
    /\ req.n > MaxGaussNodes =>
         outcome = gauss_legendre(req.func, req.a, req.b, MaxGaussNodes)

\* C12's case: a call with n = 11 returned the ten-node rule, computed weights.
C12_Witness ==
  /\ called = "gauss_legendre" /\ outcome.ok
  /\ req.n = MaxGaussNodes + 1
  /\ DOMAIN outcome.result.terms = 1..MaxGaussNodes
  /\ ~outcome.result.terms[1].w.tabulated

\* The records of a trace by kind.
IsPointRecord(s) == s.kind = "point"

IsEvalRecord(s) == s.kind = "eval"

IsResultRecord(s) == s.kind = "result"

\* The trace ends with its only result record, which carries the value the
\* call returned.
EndsWithResult(out) ==
  LET last == out.steps[Len(out.steps)]
  IN  /\ Len(SelectSeq(out.steps, IsResultRecord)) = 1
      /\ IsResultRecord(last)
      /\ last.result = out.result

\* The trapezoid value over all n + 1 points of the grid.
TrapecioOverAllPoints(r) ==
  LET h  == Div(Sub(r.b, r.a), Num(r.n))
      xs == Grid(r.a, r.b, r.n, h)
      fv == [i \in 0..r.n |-> Eval(r.func, xs[i])]
  IN  TrapecioFormula(h, fv[0], SumTerms(fv, 1, 1, r.n - 1), fv[r.n])

TrapecioTrace(r, out) ==
  LET points == SelectSeq(out.steps, IsPointRecord)
      h      == Div(Sub(r.b, r.a), Num(r.n))
  IN  /\ Len(points) = Min(r.n - 1, 5)
      /\ \A k \in DOMAIN points :
           /\ points[k].step = k + 1
           /\ points[k].x = Add(r.a, Mul(Num(k), h))
           /\ points[k] = out.steps[k + 1]
      /\ EndsWithResult(out)
      /\ out.result = TrapecioOverAllPoints(r)

GaussTrace(r, out) ==
  LET evals == SelectSeq(out.steps, IsEvalRecord)
      used  == Min(r.n, MaxGaussNodes)
  IN  /\ Len(evals) = Min(used, 5)
      /\ \A k \in DOMAIN evals : evals[k].step = k /\ evals[k] = out.steps[k + 1]
      /\ EndsWithResult(out)
      /\ DOMAIN out.result.terms = 1..used
      /\ \A i \in 1..used :
           out.result.terms[i].fx = NodeValue(r.func, r.a, r.b, used, i)

\* C19: the trace of trapecio_compuesto has exactly min(n-1, 5) records of
\* intermediate points, those of grid indices 1..5 in ascending order, and
\* the trace of gauss_legendre exactly min(n_used, 5) records of nodes; in
\* both the result record is there, once and last, with the value the call
\* returned, which is computed from all the points.
C19_TraceIsCapped ==
  /\ (called = "trapecio_compuesto" /\ outcome.ok) => TrapecioTrace(req, outcome)
  /\ (called = "gauss_legendre" /\ outcome.ok) => GaussTrace(req, outcome)

\* C19 witness: trapecio_compuesto has returned for n = 10000 with five
\* records of intermediate points in a trace of eight.
C19_Witness ==
  /\ called = "trapecio_compuesto"
  /\ outcome.ok
  /\ req.n = MaxSubdivisions
  /\ Len(outcome.steps) = 8
  /\ Len(SelectSeq(outcome.steps, IsPointRecord)) = 5
  /\ outcome.result = Num(2)

----------------------------------------------------------------------------
(* Properties of the interpolation engine.                                 *)

InterpolationMethods ==
  {"linear_interpolate", "newton_divided_diffs", "lagrange_interpolate"}

InputValidationMessages ==
  {"listas_x_e_y_no_pueden_estar_vacias", "x_y_y_misma_longitud",
   "se_requieren_al_menos_2_puntos", "valores_de_x_deben_ser_unicos",
   "x_i_no_es_un_numero_valido", "y_i_no_es_un_numero_valido"}

FailedInputValidation ==
  ~outcome.ok /\ outcome.error.msg \in InputValidationMessages

\* The call failed with this message, its text naming exactly these arguments.
InputErrorIs(msg, names) ==
  ~outcome.ok /\ outcome.error.msg = msg /\ outcome.error.names = names

HasInvalidValue(s) == \E i \in DOMAIN s : ~FIsFinite(s[i])

\* Two entries of x are equal, or are one NaN object.
HasDuplicates(r) ==
  \/ \E i \in DOMAIN r.x : \E j \in DOMAIN r.x :
       i # j /\ r.x[i] = r.x[j] /\ ~FIsNaN(r.x[i])
  \/ r.sameNaN /\ \E i \in DOMAIN r.x : \E j \in DOMAIN r.x :
       i # j /\ FIsNaN(r.x[i]) /\ FIsNaN(r.x[j])

\* A sample set: equal lengths of 2 or more, finite values, distinct x.
ValidSampleSet(r) ==
  /\ Len(r.x) = Len(r.y) /\ Len(r.x) >= 2
  /\ ~HasInvalidValue(r.x) /\ ~HasInvalidValue(r.y)
  /\ ~HasDuplicates(r)

NodeOf(r, k) == CHOOSE i \in DOMAIN r.x : r.x[i] = r.xq[k]

AllQueriesAtNodes(r) ==
  Len(r.xq) > 0 /\ \A k \in DOMAIN r.xq : \E i \in DOMAIN r.x : r.x[i] = r.xq[k]

\* C7: for every valid sample set, in any input order, and every node x_i,
\* linear_interpolate(x, y, [x_i]) returns exactly [y_i].
C7_LinearExactAtNodes ==
  (called = "linear_interpolate" /\ ValidSampleSet(req) /\ AllQueriesAtNodes(req))
    => /\ outcome.ok
       /\ Len(outcome.result) = Len(req.xq)
       /\ \A k \in DOMAIN req.xq : outcome.result[k] = req.y[NodeOf(req, k)]

\* The nodes of r by rank: the index of the smallest x, of the next, ...
Below(r, i) == {j \in DOMAIN r.x : FLt(r.x[j], r.x[i])}

Ranked(r, n) == CHOOSE i \in DOMAIN r.x : Cardinality(Below(r, i)) = n - 1

SlopeBetween(r, i, j) == FDiv(FSub(r.y[j], r.y[i]), FSub(r.x[j], r.x[i]))

IsOutside(r, xi) ==
  FLt(xi, r.x[Ranked(r, 1)]) \/ FLt(r.x[Ranked(r, Len(r.x))], xi)

\* y_min_node + s*(xi - x_min), s the slope of the first two sorted points,
\* below the nodes; y_max_node + s*(xi - x_max), s the slope of the last two,
\* above.
Extrapolated(r, xi) ==
  LET n == Len(r.x)
      lo == Ranked(r, 1)
      hi == Ranked(r, n)
  IN  IF FLt(xi, r.x[lo])
      THEN FAdd(r.y[lo], FMul(SlopeBetween(r, lo, Ranked(r, 2)), FSub(xi, r.x[lo])))
      ELSE FAdd(r.y[hi], FMul(SlopeBetween(r, Ranked(r, n - 1), hi), FSub(xi, r.x[hi])))

AllQueriesOutside(r) ==
  Len(r.xq) > 0 /\ \A k \in DOMAIN r.xq : IsOutside(r, r.xq[k])

\* C8: for every valid sample set and every query outside [x_min, x_max],
\* linear_interpolate does not refuse the query and returns the boundary
\* value plus the boundary segment's slope times the distance to the
\* boundary node.
C8_LinearExtrapolation ==
  (called = "linear_interpolate" /\ ValidSampleSet(req) /\ AllQueriesOutside(req))
    => /\ outcome.ok
       /\ Len(outcome.result) = Len(req.xq)
       /\ \A k \in DOMAIN req.xq : outcome.result[k] = Extrapolated(req, req.xq[k])

\* Three points given out of order, extrapolated above x_max.
C8_Witness ==
  /\ called = "linear_interpolate"
  /\ req.x = <<FNum(Num(4)), FNum(Num(0)), FNum(Num(1))>>
  /\ req.y = <<FNum(Num(2)), FNum(Num(-1)), FNum(Num(0))>>
  /\ req.xq = <<FNum(Num(5))>>
  /\ outcome.ok /\ outcome.result = <<FNum(<<8, 3>>)>>

\* The arithmetic of the call is exact: no value of r is non-finite or so
\* large that an intermediate value overflows.
ExactArithmetic(r) ==
  \A s \in {r.x, r.y, r.xq} : \A i \in DOMAIN s : FIsFinite(s[i]) /\ s[i].e <= 0

\* The nodes are pairwise 1e-15 or more apart.
SeparatedNodes(r) ==
  \A i \in DOMAIN r.x : \A j \in DOMAIN r.x : i # j => ~NearZero(FSub(r.x[i], r.x[j]))

NewtonAgreesWithLagrange(r) ==
  LET l == lagrange_interpolate(r.x, r.y, r.xq, r.sameNaN)
  IN  /\ outcome.ok /\ l.ok
      /\ outcome.result = l.result
      /\ \A k \in DOMAIN r.xq : \A i \in DOMAIN r.x :
           r.xq[k] = r.x[i] => outcome.result[k] = r.y[i] /\ l.result[k] = r.y[i]

\* C9 (as the code has it): for every valid sample set whose nodes are
\* pairwise 1e-15 or more apart and every query point, eval_newton_poly on the
\* output of newton_divided_diffs equals lagrange_interpolate, in exact
\* arithmetic, and both equal y_i at a node x_i.
C9_NewtonEqualsLagrangeSeparated ==
  (called = "newton_divided_diffs" /\ ValidSampleSet(req) /\ ExactArithmetic(req)
     /\ SeparatedNodes(req))
    => NewtonAgreesWithLagrange(req)

\* Three unevenly spaced points given out of order, queried between nodes.
C9_Witness ==
  /\ called = "newton_divided_diffs"
  /\ req.x = <<FNum(Num(4)), FNum(Num(0)), FNum(Num(1))>>
  /\ req.y = <<FNum(Num(2)), FNum(Num(-1)), FNum(Num(0))>>
  /\ req.xq = <<FNum(Half)>>
  /\ outcome.ok /\ outcome.result = <<FNum(<<-23, 48>>)>>

\* C9 (as stated): for every valid sample set and every query point, the
\* Newton value equals the Lagrange value, in exact arithmetic, and both
\* equal y_i at a node x_i.
C9_NewtonEqualsLagrange ==
  (called = "newton_divided_diffs" /\ ValidSampleSet(req) /\ ExactArithmetic(req))
    => NewtonAgreesWithLagrange(req)

\* What linear_interpolate returns on the arguments of the call.
LinearOutcome == linear_interpolate(req.x, req.y, req.xq, req.sameNaN)

SmallestNode(r) == CHOOSE v \in {r.x[i] : i \in DOMAIN r.x} : \A i \in DOMAIN r.x : FLe(v, r.x[i])

LargestNode(r) == CHOOSE v \in {r.x[i] : i \in DOMAIN r.x} : \A i \in DOMAIN r.x : FLe(r.x[i], v)

\* C16: on a valid sample set of exactly 2 points cubic_spline_interpolate
\* returns what linear_interpolate returns; on one of 3 or more points, when
\* it returns, its value at every query point that is at or below x_min or
\* at or above x_max is the value linear_interpolate returns there.
C16_SplineIsLinearOutside ==
  (called = "cubic_spline_interpolate" /\ ValidSampleSet(req)) =>
    /\ Len(req.x) = 2 => outcome = LinearOutcome
    /\ (Len(req.x) >= 3 /\ outcome.ok) =>
         \A k \in 1..Len(req.xq) :
           (FLe(req.xq[k], SmallestNode(req)) \/ FLe(LargestNode(req), req.xq[k]))
             => (LinearOutcome.ok /\ outcome.result[k] = LinearOutcome.result[k])


----------------------------------------------------------------------------
(* Properties of repeated calls.                                           *)

\* The sample lists are not sorted already, so that sorting them in place
\* would show.
Unsorted(r) == sort_points(r.x, r.y).x # r.x

----------------------------------------------------------------------------
(* Properties of the order of the samples.                                 *)

\* The orders in which n sample pairs can be given.
SampleOrders(n) ==
  {p \in [1..n -> 1..n] : \A i \in 1..n : \A j \in 1..n : p[i] = p[j] => i = j}

\* The request r with its sample pairs (x_i, y_i) in the order p.
Permuted(r, p) ==
  [r EXCEPT !.x = Tabulated([k \in 1..Len(p) |-> r.x[p[k]]]),
            !.y = Tabulated([k \in 1..Len(p) |-> r.y[p[k]]])]

\* Both calls return, and return the same, or both raise.
SameValues(o1, o2) == o1.ok = o2.ok /\ (o1.ok => o1 = o2)

StrictlyAscending(s) == \A i \in 1..(Len(s) - 1) : FLt(s[i], s[i + 1])

\* C18: for a valid sample set, each of linear, Newton, Lagrange and spline
\* returns the same values for the given query points in whatever order the
\* pairs (x_i, y_i) are given (Lagrange, which does not sort, in exact
\* arithmetic), and the node vector newton_divided_diffs returns is strictly
\* ascending.
C18_OrderOfSamplesIrrelevant ==
  (called # "none" /\ ValidSampleSet(req)
     /\ (called = "lagrange_interpolate" => ExactArithmetic(req)))
    => /\ \A p \in SampleOrders(Len(req.x)) :
            SameValues(InterpolationOutcome(called, Permuted(req, p)), outcome)
       /\ (called = "newton_divided_diffs" /\ outcome.ok)
            => StrictlyAscending(outcome.x_sorted)

\* C18 witness: Lagrange has returned for three unevenly spaced points given
\* out of order, and the points in ascending order give the same value.
C18_Witness ==
  /\ called = "lagrange_interpolate"
  /\ req.x = <<FNum(Num(4)), FNum(Num(0)), FNum(Num(1))>>
  /\ req.y = <<FNum(Num(2)), FNum(Num(-1)), FNum(Num(0))>>
  /\ req.xq = <<FNum(Half), FNum(Num(5))>>
  /\ outcome.ok /\ outcome.result = <<FNum(<<-23, 48>>), FNum(<<7, 3>>)>>
  /\ lagrange_interpolate(<<FNum(Num(0)), FNum(Num(1)), FNum(Num(4))>>,
                          <<FNum(Num(-1)), FNum(Num(0)), FNum(Num(2))>>,
                          req.xq, FALSE) = outcome


----------------------------------------------------------------------------
(* Properties of what a call learns of f.                                  *)

\* What the call of an integration method returns or raises for r.
IntegrationOutcome(method, r) ==
  CASE method = "trapecio_compuesto" -> trapecio_compuesto(r.func, r.a, r.b, r.n)
    [] method = "simpson_13_compuesto" -> simpson_13_compuesto(r.func, r.a, r.b, r.n)
    [] method = "simpson_38_compuesto" -> simpson_38_compuesto(r.func, r.a, r.b, r.n)
    [] method = "gauss_legendre" -> gauss_legendre(r.func, r.a, r.b, r.n)

\* The rational points a call of the method samples: the grid, or the
\* centre of the Gauss rule (its other nodes are given by atNode, raiseNode).
SamplePoints(method, r) ==
  IF method = "gauss_legendre"
  THEN (IF Min(r.n, MaxGaussNodes) % 2 = 1 THEN {CentreNode(r.a, r.b)} ELSE {})
  ELSE LET n == IF method = "simpson_13_compuesto" THEN AdjustEven(r.n)
                ELSE IF method = "simpson_38_compuesto" THEN AdjustMultipleOf3(r.n)
                ELSE r.n
           h == Div(Sub(r.b, r.a), Num(n))
       IN  {r.a, r.b} \cup {Add(r.a, Mul(Num(i), h)) : i \in 0..n}

\* f and g do the same at every sample point of the call.
AgreeAtSamples(method, r, g) ==
  /\ g.ok = r.func.ok
  /\ g.atNode = r.func.atNode /\ g.raiseNode = r.func.raiseNode
  /\ \A x \in SamplePoints(method, r) :
       /\ Raises(g, x) = Raises(r.func, x)
       /\ Eval(g, x) = Eval(r.func, x)

\* f itself, f raising at 1.0, and f infinite at 1.0.
VariantsAtOne(func) ==
  {func, [func EXCEPT !.raiseAt = One], [func EXCEPT !.infAt = One]}

\* C21: the outcome of an integration call depends only on the values of f
\* at the sample points of the call: a function that agrees with f at every
\* one of them gives the same result or the same error, whatever it does at
\* x = 1.0 outside the sampled set.
C21_OnlySamplesMatter ==
  (called \in IntegrationMethods /\ ValidIntegrationArgs(req))
    => \A g \in VariantsAtOne(req.func) :
         AgreeAtSamples(called, req, g)
           => IntegrationOutcome(called, [req EXCEPT !.func = g]) = outcome

\* Where 1.0 is among the sample points, or g does not raise there, the
\* functions that agree at the sample points give the same outcome.
C21_SameOutcomeWhenOneIsSampled ==
  (called \in IntegrationMethods /\ ValidIntegrationArgs(req))
    => \A g \in VariantsAtOne(req.func) :
         (AgreeAtSamples(called, req, g)
            /\ (One \in SamplePoints(called, req) \/ ~Raises(g, One)))
           => IntegrationOutcome(called, [req EXCEPT !.func = g]) = outcome


----------------------------------------------------------------------------
(* Properties of the list of query points.                                 *)

\* The variants that return an empty list for an empty xq: Newton and
\* Lagrange, and the spline on 3 or more points.
AcceptsNoQuery(method, r) ==
  \/ method \in {"newton_divided_diffs", "lagrange_interpolate"}
  \/ method = "cubic_spline_interpolate" /\ Len(r.x) >= 3

\* The call returned one value per query point, each the value the call
\* returns for that query point alone.
OnePerQuery(method, r, out) ==
  /\ out.ok
  /\ Len(out.result) = Len(r.xq)
  /\ \A k \in DOMAIN r.xq :
       LET alone == InterpolationOutcome(method, [r EXCEPT !.xq = <<r.xq[k]>>])
       IN  alone.ok /\ alone.result = <<out.result[k]>>

InterpolationVariants == InterpolationMethods \cup {"cubic_spline_interpolate"}

QueryListHandled(method, r, out) ==
  IF Len(r.xq) = 0
  THEN IF AcceptsNoQuery(method, r) THEN out.ok /\ out.result = <<>>
       ELSE ~out.ok /\ out.error.type = "ValueError"
  ELSE OnePerQuery(method, r, out)

\* C22: with a valid sample set every interpolation variant returns exactly
\* one value per query point, in query order; for an empty xq Newton,
\* Lagrange and the spline on 3 or more points return an empty list, and
\* linear_interpolate and the spline on exactly 2 points fail with an error.
C22_OneValuePerQuery ==
  (called \in InterpolationVariants /\ ValidSampleSet(req))
    => QueryListHandled(called, req, outcome)

\* The same for the requests without a NaN among the query points and with
\* nodes 1e-15 or more apart.
C22_OneValuePerComparableQuery ==
  (called \in InterpolationVariants /\ ValidSampleSet(req) /\ SeparatedNodes(req)
     /\ \A k \in DOMAIN req.xq : ~FIsNaN(req.xq[k]))
    => QueryListHandled(called, req, outcome)

====
